---- MODULE Spec2Model ----
(***************************************************************************)
(* The client event engine of csrc/lib/ccn_client.c: the handle, the       *)
(* interest and filter registries, reference-counted upcall closures, the  *)
(* key cache, the dispatcher and the scheduler.                            *)
(*                                                                         *)
(* The byte stream is a sequence of units.  A message the library builds   *)
(* is one unit, a whole element holding the parsed message; a message of   *)
(* several units is an opening unit that carries the parsed message, inner *)
(* units, and a closing unit, so that a write or a read can end inside it. *)
(* Names are sequences of components.  Digests are opaque strings.         *)
(***************************************************************************)
EXTENDS Integers, Sequences, FiniteSets, TLC

(* ------------------------------ bounds -------------------------------- *)
\* Interest records alive at once (the heap of struct expressed_interest).
MaxInterests == 2
\* Messages waiting in h->outbuf.
MaxOutbuf == 2
\* Seconds of wall clock explored after the first clock sample.
MaxElapsed == 4
\* Units of an unfinished message held in h->inbuf.
MaxInbuf == 3
\* Units one read(2) returns.
MaxRead == 3
\* Seconds to the latest clock reading of the ageing runs: the whole seconds
\* whose microseconds no longer fit a 32-bit int.
MaxLate == 2148

(* ------------------------- program constants -------------------------- *)
CCN_INTEREST_LIFETIME_MICROSEC == 4000000
MICROSEC_PER_SEC == 1000000
HEAL_SEC == 30
EINVAL == 22
EPIPE == 32
EAGAIN == 11
EBUSY == 16
ENOTCONN == 107

NULL == "NULL"

\* enum ccn_upcall_res
Results == {"OK", "ERR", "REEXPRESS", "INTEREST_CONSUMED", "VERIFY"}
\* enum ccn_upcall_kind
ContentKinds == {"CONTENT", "CONTENT_UNVERIFIED", "CONTENT_BAD"}
InterestKinds == {"INTEREST", "CONSUMED_INTEREST"}

(* ------------------------------ universe ------------------------------ *)
\* The closures the application registers (smoketestclientlib.c keeps two
\* static ones: incoming_content_action and interest_filter).
UserClosures == {"c1", "c2"}
\* The closure ccn_initiate_key_fetch allocates for the record with this id.
KeyClosure(id) == "hk" \o ToString(id)
KeyClosures == {KeyClosure(id) : id \in 1..MaxInterests}
\* The closure inside the struct simple_get_data that ccn_get allocates.
GetClosure == "md"
Closures == UserClosures \cup KeyClosures \cup {GetClosure}

Digests == {"d1"}
\* First wall-clock reading of a run (gettimeofday never reads 0 seconds).
T0 == 100
\* How far the wall clock moves between two samples, in seconds.
Advances == {0, 2, 4}

\* What the application's upcalls return, by the kind of upcall.
TimeoutResults == {"REEXPRESS", "OK"}
FilterResults == {"OK", "INTEREST_CONSUMED"}
\* The interest_template of ccn_express_interest: none, one that does not
\* parse, or one carrying a publisher digest.
ExprTemplates == {"none", "bad"}

\* What write(2) does during one library call.
WriteBehaviours == {"full", "eagain", "error"}

IsPrefix(p, n) == Len(p) <= Len(n) /\ SubSeq(n, 1, Len(p)) = p
Prefix(n, k) == SubSeq(n, 1, k)

\* Names an application expresses interest in or registers a filter on.
ExprNames == {<<"a">>, <<"a", "b">>}
PrefixComps == {-1, 1}
FilterNames == {<<"a">>, <<"a", "b">>, <<"a", "b", "c">>}
\* Every key a registry can hold, in the order a hash-table enumeration visits them.
KeyOrder == << <<>>, <<"a">>, <<"k">>, <<"a", "b">>, <<"a", "b", "c">> >>

(* ------------------------------ messages ------------------------------ *)
\* One record shape for every incoming message so that they compare.
Msg(mt, name, pc, pubsel, type, pub, loc, kname, kpub, kdig, signer, cdig) ==
    [mt |-> mt, name |-> name, pc |-> pc, pubsel |-> pubsel, type |-> type,
     pub |-> pub, loc |-> loc, kname |-> kname, kpub |-> kpub, kdig |-> kdig,
     signer |-> signer, cdig |-> cdig]

\* An Interest: Name, NameComponentCount (pc, -1 when absent) and a
\* PublisherPublicKeyDigest selector (NULL when absent).
InterestMsg(name, pc, pubsel) ==
    Msg("interest", name, pc, pubsel, NULL, NULL, NULL, <<>>, NULL, NULL, NULL, NULL)

\* A ContentObject: type DATA or KEY, the PublisherPublicKeyDigest pub, the
\* KeyLocator loc (NONE, KEYNAME with name kname and publisher id kpub, KEY
\* with inline key digest kdig, CERT), the digest of the key that really
\* signed it, and the digest under which ccn_cache_key files a KEY-type object.
ContentMsg(name, type, pub, loc, kname, kpub, kdig, signer, cdig) ==
    Msg("content", name, -1, NULL, type, pub, loc, kname, kpub, kdig, signer, cdig)

\* Bytes that parse neither as an Interest nor as a ContentObject.
Garbage ==
    Msg("garbage", <<>>, -1, NULL, NULL, NULL, NULL, <<>>, NULL, NULL, NULL, NULL)

\* ContentObjects named /a/b, published by d1: the KeyLocator is a KeyName
\* that is a prefix of the content's own name, a KeyName elsewhere (with a
\* publisher id), an inline Key (signature good, signature bad), absent, or
\* a Certificate.
DataKeyNameNear ==
    ContentMsg(<<"a", "b">>, "DATA", "d1", "KEYNAME", <<"a">>, NULL, NULL, "d1", NULL)
DataKeyNameFar ==
    ContentMsg(<<"a", "b">>, "DATA", "d1", "KEYNAME", <<"k">>, "d1", NULL, "d1", NULL)
DataInlineGood ==
    ContentMsg(<<"a", "b">>, "DATA", "d1", "KEY", <<>>, NULL, "d1", "d1", NULL)
DataInlineBad ==
    ContentMsg(<<"a", "b">>, "DATA", "d1", "KEY", <<>>, NULL, "d1", "bad", NULL)
DataNoLocator ==
    ContentMsg(<<"a", "b">>, "DATA", "d1", "NONE", <<>>, NULL, NULL, "d1", NULL)
DataCertificate ==
    ContentMsg(<<"a", "b">>, "DATA", "d1", "CERT", <<>>, NULL, NULL, "d1", NULL)
\* A KEY-type ContentObject named /k whose digest is d1.
KeyObject ==
    ContentMsg(<<"k">>, "KEY", "d1", "NONE", <<>>, NULL, NULL, "d1", "d1")

Contents ==
    {DataKeyNameNear, DataKeyNameFar, DataInlineGood, DataInlineBad,
     DataNoLocator, DataCertificate, KeyObject}

IncomingInterests ==
    { InterestMsg(<<"a", "b", "c">>, -1, NULL), InterestMsg(<<"a">>, -1, NULL) }

(* ------------------------------- state -------------------------------- *)
VARIABLES
    alive,               \* the handle exists (between ccn_create and ccn_destroy)
    sock,                \* h->sock, -1 when not connected
    outbuf,              \* h->outbuf from h->outbufindex on, one element per unit
    interests_by_prefix, \* h->interests_by_prefix: prefix key -> list of record ids
    interests,           \* the struct expressed_interest records, by id
    interest_filters,    \* h->interest_filters: name -> action
    keys,                \* h->keys: the digests that have a cached key
    now,                 \* h->now
    running,             \* h->running
    refresh_us,          \* h->refresh_us
    err,                 \* h->err
    refcount,            \* closure -> its refcount field
    upcalls,             \* the upcalls made by the last operation, in order
    sent,                \* the ccn_put calls of the last operation, in order
    lastop,              \* the last operation, its message and its return value
    inbuf,               \* h->inbuf: the bytes read and not yet dispatched
    decoder,             \* h->decoder
    timeout,             \* h->timeout
    tap,                 \* h->tap, -1 when there is no tap file
    io,                  \* what the last operation did to the socket and the tap
    run                  \* the frame of ccn_run while the application is inside it

vars == <<alive, sock, outbuf, interests_by_prefix, interests, interest_filters,
          keys, now, running, refresh_us, err, refcount, upcalls, sent, lastop,
          inbuf, decoder, timeout, tap, io, run>>

\* Nothing done yet to the socket or the tap: the units the socket accepted,
\* the units written to the tap, the slices handed to ccn_dispatch_message,
\* the descriptors given to close(2), the timeouts given to poll(2), what
\* each ccn_run called from an upcall returned, the key tables given to
\* hashtb_destroy, what each ccn_get did, and the delta ccn_age_interest
\* computed for each record it aged.
NoIO == [written |-> <<>>, tapped |-> <<>>, dispatched |-> <<>>, closed |-> <<>>,
         polls |-> <<>>, reruns |-> <<>>, freed |-> <<>>, gets |-> <<>>,
         aged |-> <<>>]

\* The handle and the closures as one value, threaded through the operators.
\* overflow is set when a call would need more records than MaxInterests; cb
\* is what the application's upcalls do to the handle during this operation
\* and getin what a ccn_get they call meets; keytab names the hash table
\* h->keys points at ("orig": the one this handle's ccn_create made) and
\* intdata is the intdata field of ccn_get's closure.
Handle ==
    [sock |-> sock, outbuf |-> outbuf, interests_by_prefix |-> interests_by_prefix,
     interests |-> interests, interest_filters |-> interest_filters, keys |-> keys,
     now |-> now, running |-> running, refresh_us |-> refresh_us, err |-> err,
     refcount |-> refcount, upcalls |-> <<>>, sent |-> <<>>,
     inbuf |-> inbuf, decoder |-> decoder, timeout |-> timeout, tap |-> tap,
     io |-> NoIO, cb |-> "none", overflow |-> FALSE,
     keytab |-> "orig", intdata |-> 0, getin |-> << >>]

Timeval(s, u) == [tv_sec |-> s, tv_usec |-> u]

\* The fields of the ccn_run frame: inside the loop or not, the local start
\* and the local res.
NotRunning == [active |-> FALSE, start |-> Timeval(0, 0), res |-> -1]

\* arg is the message of a dispatch_message, the name and action of a
\* set_interest_filter, and empty for the other operations.
Op(name, arg, ret) == [op |-> name, arg |-> arg, ret |-> ret]

(* --------------------------- small helpers ---------------------------- *)
Min(a, b) == IF a < b THEN a ELSE b

\* f with key k bound to v, whether or not k was in its domain.
Bind(f, k, v) == [x \in DOMAIN f \cup {k} |-> IF x = k THEN v ELSE f[x]]
\* f without key k.
Unbind(f, k) == [x \in DOMAIN f \ {k} |-> f[x]]

\* NOTE_ERR(h, e)
NOTE_ERR(h, e) == [h EXCEPT !.err = e]

\* A result of a library call: the handle afterwards and the value returned.
Ret(h, r) == [h |-> h, ret |-> r]

(* ------------------------------ closures ------------------------------ *)
\* A place that holds a struct ccn_closure *: the action of an interest
\* record or of a filter entry.
InterestSlot(id) == [tbl |-> "interest", id |-> id, name |-> <<>>]
FilterSlot(name) == [tbl |-> "filter", id |-> 0, name |-> name]

GetAction(h, slot) ==
    IF slot.tbl = "interest" THEN h.interests[slot.id].action
    ELSE h.interest_filters[slot.name]

SetAction(h, slot, c) ==
    IF slot.tbl = "interest" THEN [h EXCEPT !.interests[slot.id].action = c]
    ELSE [h EXCEPT !.interest_filters[slot.name] = c]

\* How many registry slots point at closure c.
Refs(h, c) ==
    Cardinality({id \in DOMAIN h.interests : h.interests[id].action = c})
    + Cardinality({n \in DOMAIN h.interest_filters : h.interest_filters[n] = c})

\* handle_key: the upcall of a key-fetch closure.
handle_key(kind) ==
    CASE kind = "FINAL" -> "OK"
      [] kind = "INTEREST_TIMED_OUT" -> "OK"
      [] kind \in {"CONTENT", "CONTENT_UNVERIFIED"} -> "OK"
      [] OTHER -> "ERR"

\* handle_simple_incoming_content: the upcall of ccn_get's closure.
handle_simple_incoming_content(kind, intdata) ==
    CASE kind = "FINAL" -> "OK"
      [] kind = "INTEREST_TIMED_OUT" -> IF intdata # 0 THEN "REEXPRESS" ELSE "OK"
      [] kind \in {"CONTENT", "CONTENT_UNVERIFIED"} -> "OK"
      [] OTHER -> "ERR"

\* What closure c returns for an upcall of this kind: handle_key's own
\* answer for a key-fetch closure, the application's choice r otherwise.
UpcallResult(h, c, kind, r) ==
    IF c \in KeyClosures THEN handle_key(kind)
    ELSE IF c = GetClosure THEN handle_simple_incoming_content(kind, h.intdata)
    ELSE r

\* ccn_set_run_timeout
ccn_set_run_timeout(h, t) == Ret([h EXCEPT !.timeout = t], h.timeout)

\* An entry to ccn_run that stores the timeout before it looks at h->running.
RunEntry_TimeoutFirst(h, t) ==
    IF h.running # 0 THEN Ret(NOTE_ERR([h EXCEPT !.timeout = t], EBUSY), -1)
    ELSE Ret([h EXCEPT !.timeout = t], 0)

\* ccn_run up to the loop, lines 1274-1278: -1 with EBUSY, or 0 when the
\* loop is entered.
RunEntry(h, t) ==
    IF h.running # 0 THEN Ret(NOTE_ERR(h, EBUSY), -1)
    ELSE Ret([h EXCEPT !.timeout = t], 0)

\* ccn_run(h, -1) called by an upcall: recorded with h->running at the call,
\* what it returned, h->err afterwards, and whether anything but h->err changed.
ReRun(h) ==
    [RunEntry(h, -1).h EXCEPT !.io.reruns =
        Append(@, [running |-> h.running, ret |-> RunEntry(h, -1).ret,
                   err |-> RunEntry(h, -1).h.err,
                   unchanged |-> [RunEntry(h, -1).h EXCEPT !.err = h.err] = h])]

RECURSIVE ccn_get(_, _)
\* What the upcall does to the handle before it returns.  The application's
\* upcall does nothing, calls ccn_set_run_timeout(h, 0), calls ccn_run(h, -1)
\* or, when content has come, calls ccn_get; handle_simple_incoming_content
\* stops the loop when content has come, lines 1367-1368.
AppCalls(h, c, kind) ==
    IF c = GetClosure
    THEN IF kind \in {"CONTENT", "CONTENT_UNVERIFIED"}
         THEN ccn_set_run_timeout(h, 0).h ELSE h
    ELSE IF c \notin UserClosures THEN h
    ELSE CASE h.cb = "stop" -> ccn_set_run_timeout(h, 0).h
           [] h.cb = "run" -> ReRun(h)
           [] h.cb = "get" /\ kind \in ContentKinds -> ccn_get(h, h.getin).h
           [] OTHER -> h

\* (c->p)(c, kind, &info): the call is recorded with the incoming message it
\* is about (Garbage when there is none), the record it is for (0 when there
\* is none), the matched component count, and how many slots point at c at
\* that time.
Upcall(h, c, kind, res, msg, id, matched) ==
    AppCalls([h EXCEPT !.upcalls = Append(@, [clo |-> c, kind |-> kind, res |-> res,
                                              msg |-> msg, id |-> id, matched |-> matched,
                                              refs |-> Refs(h, c)])], c, kind)

\* A release that makes the FINAL upcall whatever the count has become; C5
\* does not survive it.
ReleaseOld_AlwaysFinal(h, old) ==
    Upcall(h, old, "FINAL", UpcallResult(h, old, "FINAL", "OK"), Garbage, 0, -1)

\* --(old->refcount) == 0 and the FINAL upcall, lines 142-146.
ReleaseOld(h, old) ==
    IF h.refcount[old] = 0
    THEN Upcall(h, old, "FINAL", UpcallResult(h, old, "FINAL", "OK"), Garbage, 0, -1)
    ELSE h

\* src->refcount++; *dstp = src, lines 139-141.
StoreHandler(h, slot, src) ==
    SetAction(IF src # NULL THEN [h EXCEPT !.refcount[src] = @ + 1] ELSE h, slot, src)

\* ccn_replace_handler
ccn_replace_handler(h, slot, src) ==
    LET old == GetAction(h, slot)
    IN  IF src = old THEN h
        ELSE IF old = NULL THEN StoreHandler(h, slot, src)
        ELSE ReleaseOld([StoreHandler(h, slot, src) EXCEPT !.refcount[old] = @ - 1], old)

(* --------------------------- outgoing framer -------------------------- *)
\* The opening unit of an element that parses as message m, an inner unit,
\* and the closing unit.
Opening(m) == [mt |-> "open", of |-> m]
Inner == [mt |-> "blob"]
Closing == [mt |-> "close"]

\* Message m encoded in n units.
Wire(m, n) ==
    IF n = 1 THEN <<m>> ELSE <<Opening(m)>> \o [k \in 1..(n - 2) |-> Inner] \o <<Closing>>

\* What ccn_parse_interest and ccn_parse_ContentObject make of the bytes p.
Parse(p) ==
    IF Len(p) = 0 THEN Garbage
    ELSE IF p[1].mt = "open" THEN p[1].of
    ELSE IF p[1].mt \in {"interest", "content"} THEN p[1]
    ELSE Garbage

\* struct ccn_skeleton_decoder after memset: state 0 is "at the end of a
\* top-level element", 1 is "inside one", negative is an error.
Decoder0 == [state |-> 0, nest |-> 0, index |-> 0]

\* The skeleton decoder over one unit.
SkeletonStep(d, u) ==
    CASE u.mt = "open" -> [d EXCEPT !.state = 1, !.nest = @ + 1, !.index = @ + 1]
      [] u.mt = "blob" -> [d EXCEPT !.state = 1, !.index = @ + 1]
      [] u.mt = "close" ->
            IF d.nest <= 0 THEN [d EXCEPT !.state = -1]
            ELSE [d EXCEPT !.state = IF d.nest = 1 THEN 0 ELSE 1,
                           !.nest = @ - 1, !.index = @ + 1]
      [] u.mt \in {"interest", "content"} ->
            [d EXCEPT !.state = IF d.nest = 0 THEN 0 ELSE 1, !.index = @ + 1]
      [] OTHER -> [d EXCEPT !.state = -1]

\* ccn_skeleton_decode(d, p, n): it stops at the end of p, at the end of a
\* top-level element, or at an error; res is the count of units consumed.
RECURSIVE SkeletonFrom(_, _, _)
SkeletonFrom(d, p, k) ==
    IF d.state < 0 \/ k > Len(p) THEN [d |-> d, res |-> k - 1]
    ELSE IF SkeletonStep(d, p[k]).state = 0
    THEN [d |-> SkeletonStep(d, p[k]), res |-> k]
    ELSE SkeletonFrom(SkeletonStep(d, p[k]), p, k + 1)

ccn_skeleton_decode(d, p) == SkeletonFrom(d, p, 1)

\* write(2) of n units under behaviour wr: the count written, or -1 with
\* errno.  A short write takes one unit of several.
Write(wr, n) ==
    CASE wr \in {"full", "tapfail"} -> [res |-> n, errno |-> 0]
      [] wr = "short" -> [res |-> IF n > 1 THEN 1 ELSE n, errno |-> 0]
      [] wr = "eagain" -> [res |-> -1, errno |-> EAGAIN]
      [] wr = "notconn" -> [res |-> -1, errno |-> ENOTCONN]
      [] OTHER -> [res |-> -1, errno |-> EPIPE]

\* write(2) on the socket, the units it accepted recorded.
SockWrite(h, p, wr) ==
    IF Write(wr, Len(p)).res > 0
    THEN [h EXCEPT !.io.written = @ \o SubSeq(p, 1, Write(wr, Len(p)).res)]
    ELSE h

\* A validation that lets through any bytes that begin with a complete message.
OneMessage_Prefix(p) == ccn_skeleton_decode(Decoder0, p).d.state = 0

\* res == length && dd.state == 0, line 579: the skeleton decoder accepts
\* exactly one complete top-level message.
OneMessage(p) ==
    /\ ccn_skeleton_decode(Decoder0, p).res = Len(p)
    /\ ccn_skeleton_decode(Decoder0, p).d.state = 0

\* How many messages have units waiting in the output buffer b.
Backlog(b) == Cardinality({k \in 1..Len(b) : b[k].mt \notin {"open", "blob"}})

\* ccn_output_is_pending answering no whatever the output buffer holds.
ccn_output_is_pending_Never(h) == FALSE

\* ccn_output_is_pending
ccn_output_is_pending(h) == Len(h.outbuf) > 0

\* ccn_pushout
ccn_pushout(h, wr) ==
    IF Len(h.outbuf) > 0
    THEN IF h.sock < 0 THEN Ret(h, 1)
         ELSE LET size == Len(h.outbuf)
                  w == Write(wr, size)
              IN  IF w.res = size
                  THEN Ret([SockWrite(h, h.outbuf, wr) EXCEPT !.outbuf = <<>>], 0)
                  ELSE IF w.res = -1
                  THEN IF w.errno = EAGAIN THEN Ret(h, 1)
                       ELSE Ret(NOTE_ERR(h, w.errno), -1)
                  ELSE Ret([SockWrite(h, h.outbuf, wr)
                               EXCEPT !.outbuf = SubSeq(@, w.res + 1, size)], 1)
    ELSE Ret(h, 0)

\* if (h->tap != -1) {...}, lines 581-588: a failed write closes the tap.
TapWrite(h, p, wr) ==
    IF h.tap = -1 THEN h
    ELSE IF wr = "tapfail" THEN [NOTE_ERR(h, 28) EXCEPT !.tap = -1]
    ELSE [h EXCEPT !.io.tapped = @ \o p]

\* A put that buffers the whole message after a short write of it.
PutWrite_WholeBuffered(h, p, wr) ==
    IF Len(h.outbuf) > 0
    THEN ccn_pushout([h EXCEPT !.outbuf = @ \o p], wr)
    ELSE IF h.sock # -1 /\ Write(wr, Len(p)).res = Len(p) THEN Ret(SockWrite(h, p, wr), 0)
    ELSE IF h.sock # -1 /\ Write(wr, Len(p)).res = -1 /\ Write(wr, Len(p)).errno # EAGAIN
    THEN Ret(NOTE_ERR(h, Write(wr, Len(p)).errno), -1)
    ELSE Ret([(IF h.sock = -1 THEN h ELSE SockWrite(h, p, wr)) EXCEPT !.outbuf = @ \o p], 1)

\* ccn_put from the backlog test on, lines 589-610.
PutWrite(h, p, wr) ==
    IF Len(h.outbuf) > 0
    THEN ccn_pushout([h EXCEPT !.outbuf = @ \o p], wr)
    ELSE LET w == IF h.sock = -1 THEN [res |-> 0, errno |-> 0] ELSE Write(wr, Len(p))
         IN  IF w.res = Len(p) THEN Ret(SockWrite(h, p, wr), 0)
             ELSE IF w.res = -1 /\ w.errno # EAGAIN THEN Ret(NOTE_ERR(h, w.errno), -1)
             ELSE LET n == IF w.res = -1 THEN 0 ELSE w.res
                  IN  Ret([(IF h.sock = -1 THEN h ELSE SockWrite(h, p, wr))
                              EXCEPT !.outbuf = @ \o SubSeq(p, n + 1, Len(p))], 1)

\* ccn_put, without the call recorded.
PutBody(h, p, wr) ==
    IF Len(p) = 0 THEN Ret(NOTE_ERR(h, EINVAL), -1)
    ELSE IF ~OneMessage(p) THEN Ret(NOTE_ERR(h, EINVAL), -1)
    ELSE PutWrite(TapWrite(h, p, wr), p, wr)

\* The call recorded with what it returned.
PutDone(r, p) == Ret([r.h EXCEPT !.sent = Append(@, [p |-> p, ret |-> r.ret])], r.ret)

\* ccn_put
ccn_put(h, p, wr) == PutDone(PutBody(h, p, wr), p)

(* -------------------------- interest registry ------------------------- *)
\* if (res >= 0) {...}, lines 640-645: clk is what gettimeofday would read.
RefreshDone(r, id, clk) ==
    LET t == IF r.h.now.tv_sec = 0 THEN clk ELSE r.h.now
    IN  IF r.ret >= 0
        THEN [r.h EXCEPT !.interests[id].outstanding = @ + 1,
                         !.now = t,
                         !.interests[id].lasttime = t,
                         !.interests[id].delivered = 0]
        ELSE r.h

\* A refresh that builds the Interest afresh, from the name alone, each time
\* it sends; C13 does not survive it.
ccn_refresh_interest_Rebuilt(h, id, wr, clk) ==
    IF h.interests[id].outstanding < h.interests[id].target
    THEN RefreshDone(ccn_put(h, << InterestMsg(h.interests[id].interest_msg[1].name, 0, NULL) >>,
                             wr),
                     id, clk)
    ELSE h

\* ccn_refresh_interest
ccn_refresh_interest(h, id, wr, clk) ==
    IF h.interests[id].outstanding < h.interests[id].target
    THEN RefreshDone(ccn_put(h, h.interests[id].interest_msg, wr), id, clk)
    ELSE h

\* replace_interest_msg
replace_interest_msg(h, id, cb) == [h EXCEPT !.interests[id].interest_msg = cb]

\* A name buffer decodes as a Name unless it holds the component "?".
ValidName(name) == \A k \in 1..Len(name) : name[k] # "?"

\* Byte offset, in the encoded Name, of the end of its first k components:
\* one byte of Name tag, four bytes for each one-character component.
NameEnd(k) == 1 + 4 * k

\* ccn_check_namebuf: the byte offset of the end of the prefix, or -1.  No
\* component of the model is the 36 bytes of an implicit digest.
ccn_check_namebuf(name, prefix_comps, omit_possible_digest) ==
    LET counted == IF prefix_comps < 0 THEN Len(name) ELSE Min(prefix_comps, Len(name))
        ans == NameEnd(counted)
    IN  IF ~ValidName(name) \/ ans < prefix_comps THEN -1 ELSE ans

\* The components held in bytes [1, prefixend) of the encoded name.
NameKey(name, prefixend) == Prefix(name, (prefixend - 1) \div 4)

\* ccn_construct_interest: the bytes of the Interest, or NULL (no bytes) when
\* the template does not parse.  templ is "none" for a NULL template, "bad"
\* for one that does not parse, else the publisher digest it carries.
ccn_construct_interest(name, prefix_comps, templ) ==
    IF templ = "bad" THEN <<>>
    ELSE << InterestMsg(name, prefix_comps, IF templ = "none" THEN NULL ELSE templ) >>

\* calloc(1, sizeof(struct expressed_interest)).  delivered is no field of
\* the struct: it counts the content upcalls made for the record since
\* ccn_put last accepted its Interest.
NewInterest ==
    [lasttime |-> Timeval(0, 0), action |-> NULL, interest_msg |-> <<>>,
     target |-> 0, outstanding |-> 0, wanted_pub |-> NULL, delivered |-> 0]

HeapFull(h) == Cardinality(DOMAIN h.interests) >= MaxInterests
FreeId(h) == CHOOSE id \in 1..MaxInterests :
                /\ id \notin DOMAIN h.interests
                /\ \A j \in 1..(id - 1) : j \in DOMAIN h.interests

\* The record linked at the head of its list and transmitted, lines 505-517.
ExpressRecord(h, key, id, msg, action, wr, clk) ==
    ccn_refresh_interest(
        [ccn_replace_handler(
             [h EXCEPT !.interests =
                  Bind(@, id, [NewInterest EXCEPT !.interest_msg = msg])],
             InterestSlot(id), action)
           EXCEPT !.interests[id].target = 1,
                  !.interests_by_prefix[key] = <<id>> \o @],
        id, wr, clk)

\* An express that takes its reference to the action before it looks at the
\* message it built.
ExpressSeek_ActionFirst(h, key, msg, action, wr, clk) ==
    IF msg = <<>> THEN Ret(NOTE_ERR([h EXCEPT !.refcount[action] = @ + 1], EINVAL), -1)
    ELSE IF HeapFull(h) THEN Ret([h EXCEPT !.overflow = TRUE], -1)
    ELSE Ret(ExpressRecord(h, key, FreeId(h), msg, action, wr, clk), 0)

\* ccn_express_interest from the hashtb_seek on, lines 488-518.
ExpressSeek(h, key, msg, action, wr, clk) ==
    IF msg = <<>> THEN Ret(NOTE_ERR(h, EINVAL), -1)
    ELSE IF HeapFull(h) THEN Ret([h EXCEPT !.overflow = TRUE], -1)
    ELSE Ret(ExpressRecord(h, key, FreeId(h), msg, action, wr, clk), 0)

\* ccn_express_interest
ccn_express_interest(h, name, prefix_comps, action, templ, wr, clk) ==
    LET prefixend == ccn_check_namebuf(name, prefix_comps, TRUE)
        key == NameKey(name, prefixend)
    IN  IF prefixend < 0 THEN Ret(h, prefixend)
        ELSE ExpressSeek(IF key \in DOMAIN h.interests_by_prefix THEN h
                         ELSE [h EXCEPT !.interests_by_prefix = Bind(@, key, <<>>)],
                         key, ccn_construct_interest(name, prefix_comps, templ),
                         action, wr, clk)

\* A removal that leaves the emptied entry in the table; C4 does not survive it.
FilterDone_EntryKept(h, name, action) == h

\* if (action == NULL) hashtb_delete(e), lines 542-543.
FilterDone(h, name, action) ==
    IF action = NULL THEN [h EXCEPT !.interest_filters = Unbind(@, name)] ELSE h

\* ccn_set_interest_filter: returns HT_OLD_ENTRY (0) or HT_NEW_ENTRY (1).
ccn_set_interest_filter(h, name, action) ==
    LET res == ccn_check_namebuf(name, -1, FALSE)
        new == name \notin DOMAIN h.interest_filters
    IN  IF res < 0 THEN Ret(h, res)
        ELSE Ret(FilterDone(
                     ccn_replace_handler(
                         IF new THEN [h EXCEPT !.interest_filters = Bind(@, name, NULL)]
                         ELSE h,
                         FilterSlot(name), action),
                     name, action),
                 IF new THEN 1 ELSE 0)

(* ------------------------- key cache and fetcher ---------------------- *)
\* ccn_cache_key
ccn_cache_key(h, co) ==
    IF co.type # "KEY" THEN Ret(h, 0)
    ELSE Ret([h EXCEPT !.keys = @ \cup {co.cdig}], 0)

\* ccn_locate_key: ret 0 with the key found (named by its digest), 1 when the
\* key must be fetched, negative when no key can be had.
ccn_locate_key(h, co) ==
    IF co.pub \in h.keys THEN [h |-> h, ret |-> 0, pubkey |-> co.pub]
    ELSE IF co.loc = "NONE" THEN [h |-> h, ret |-> -1, pubkey |-> NULL]
    ELSE IF co.loc = "KEYNAME" THEN [h |-> h, ret |-> 1, pubkey |-> NULL]
    ELSE IF co.loc = "KEY"
    THEN [h |-> IF co.kdig \in h.keys THEN NOTE_ERR(h, -73)
                ELSE [h EXCEPT !.keys = @ \cup {co.kdig}],
          ret |-> 0, pubkey |-> co.kdig]
    ELSE [h |-> NOTE_ERR(h, -76), ret |-> -1, pubkey |-> NULL]

\* ccn_verify_signature(msg, size, pco, pubkey) == 1
ccn_verify_signature(co, pubkey) == co.signer = pubkey

\* ccn_content_matches_interest: the prefix_comps first components of the
\* Interest's name start the ContentObject's name, and the publisher
\* selector, when there is one, is the ContentObject's publisher.
ccn_content_matches_interest(co, im) ==
    LET k == IF im.pc < 0 THEN Len(im.name) ELSE Min(im.pc, Len(im.name))
    IN  /\ IsPrefix(Prefix(im.name, k), co.name)
        /\ (im.pubsel = NULL \/ im.pubsel = co.pub)

\* A key fetch that records the wanted digest but leaves target alone; C2 does
\* not survive it.
ParkTrigger_TargetKept(h, co, trigger_interest) ==
    [h EXCEPT !.interests[trigger_interest].wanted_pub = co.pub]

\* Arrange a wakeup when the key arrives, lines 865-878.
ParkTrigger(h, co, trigger_interest) ==
    [h EXCEPT !.interests[trigger_interest].wanted_pub = co.pub,
              !.interests[trigger_interest].target = 0]

\* namelen, lines 880-887: the length of the KeyName's Name, 0 without one.
KeyNameLen(co) == IF co.loc = "KEYNAME" THEN Len(co.kname) ELSE 0

\* The template carrying the KeyName's publisher id, lines 897-907.
KeyFetchTemplate(co) == IF co.kpub # NULL THEN co.kpub ELSE "none"

\* A key fetch that never asks; C10 does not survive it.
KeyFetch_NeverAsks(h, co, wr, clk) == Ret(h, -1)

\* ccn_initiate_key_fetch from namelen on, lines 880-911.
KeyFetch(h, co, wr, clk) ==
    IF KeyNameLen(co) = 0 THEN Ret(h, -1)
    ELSE IF HeapFull(h) THEN Ret([h EXCEPT !.overflow = TRUE], -1)
    ELSE ccn_express_interest(h, co.kname, -1, KeyClosure(FreeId(h)),
                              KeyFetchTemplate(co), wr, clk)

\* ccn_initiate_key_fetch
ccn_initiate_key_fetch(h, co, trigger_interest, wr, clk) ==
    KeyFetch(ParkTrigger(h, co, trigger_interest), co, wr, clk)

\* A scheduler that never looks for the wanted key; C11 does not survive it.
ccn_check_pub_arrival_Asleep(h, id, wr, clk) == h

\* A scheduler that takes a record waiting for no key for one whose key has
\* come: it is wanted again and sent.
ccn_check_pub_arrival_NoKeyIsArrival(h, id, wr, clk) ==
    LET want == h.interests[id].wanted_pub
    IN  IF want = NULL \/ want \in h.keys
        THEN ccn_refresh_interest([h EXCEPT !.interests[id].wanted_pub = NULL,
                                            !.interests[id].target = 1],
                                  id, wr, clk)
        ELSE h

\* ccn_check_pub_arrival
ccn_check_pub_arrival(h, id, wr, clk) ==
    LET want == h.interests[id].wanted_pub
    IN  IF want = NULL THEN h
        ELSE IF want \in h.keys
        THEN ccn_refresh_interest([h EXCEPT !.interests[id].wanted_pub = NULL,
                                            !.interests[id].target = 1],
                                  id, wr, clk)
        ELSE h

(* ------------------------------ dispatcher ---------------------------- *)
\* A dispatcher that delivers without counting the delivery; the bound of C1
\* does not survive it.
ConsumeOutstanding_Forgotten(h, id) == h

\* interest->outstanding -= 1, line 1019.
ConsumeOutstanding(h, id) == [h EXCEPT !.interests[id].outstanding = @ - 1]

\* A kind selection that trusts every located key; C8 does not survive it.
ContentUpcallKind_NoVerify(co, lk) ==
    IF lk.ret = 0 THEN "CONTENT" ELSE "CONTENT_UNVERIFIED"

\* The upcall kind chosen from what ccn_locate_key and ccn_verify_signature
\* return, lines 1011-1018.
ContentUpcallKind(co, lk) ==
    IF lk.ret = 0
    THEN IF ccn_verify_signature(co, lk.pubkey) THEN "CONTENT" ELSE "CONTENT_BAD"
    ELSE "CONTENT_UNVERIFIED"

\* A retirement that keeps the message bytes; C3 does not survive it.
RetireInterest_MsgKept(h, id) ==
    ccn_replace_handler([h EXCEPT !.interests[id].target = 0], InterestSlot(id), NULL)

\* The else branch after a content upcall, lines 1032-1036.
RetireInterest(h, id) ==
    ccn_replace_handler(
        replace_interest_msg([h EXCEPT !.interests[id].target = 0], id, <<>>),
        InterestSlot(id), NULL)

\* A dispatcher that starts a key fetch on every VERIFY, whatever the kind
\* was; C9 does not survive it.
ContentUpcallDone_VerifyAnyKind(h, id, co, upcall_kind, ures, wr, clk) ==
    IF ures = "REEXPRESS" THEN ccn_refresh_interest(h, id, wr, clk)
    ELSE IF ures = "VERIFY" THEN ccn_initiate_key_fetch(h, co, id, wr, clk).h
    ELSE RetireInterest(h, id)

\* What follows a content upcall that returned ures, lines 1027-1036.
ContentUpcallDone(h, id, co, upcall_kind, ures, wr, clk) ==
    IF ures = "REEXPRESS" THEN ccn_refresh_interest(h, id, wr, clk)
    ELSE IF ures = "VERIFY" /\ upcall_kind = "CONTENT_UNVERIFIED"
    THEN ccn_initiate_key_fetch(h, co, id, wr, clk).h
    ELSE RetireInterest(h, id)

\* The content upcall of record id, lines 1019-1024.  r is what the
\* application's upcall returns.
ContentUpcall(h, id, co, i, upcall_kind, r, wr, clk) ==
    LET action == h.interests[id].action
        ures == UpcallResult(h, action, upcall_kind, r)
    IN  ContentUpcallDone(
            Upcall([ConsumeOutstanding(h, id) EXCEPT !.interests[id].delivered = @ + 1],
                   action, upcall_kind, ures, co, id, i),
            id, co, upcall_kind, ures, wr, clk)

\* A matching record once ccn_locate_key has answered lk, lines 1005-1036.
DeliverLocated(lk, id, co, i, r, wr, clk) ==
    ContentUpcall(lk.h, id, co, i, ContentUpcallKind(co, lk), r, wr, clk)

\* The body of the loop over one per-prefix list, for one record: lines
\* 991-1038 of ccn_dispatch_message.  rs[id] is what the application's
\* upcall for record id returns.
DeliverContent(h, id, co, i, rs, wr, clk) ==
    LET rec == h.interests[id]
    IN  IF /\ rec.target > 0
           /\ rec.outstanding > 0
           /\ rec.interest_msg # <<>>
           /\ ccn_content_matches_interest(co, rec.interest_msg[1])
        THEN DeliverLocated(
                 ccn_locate_key(IF co.type = "KEY" THEN ccn_cache_key(h, co).h ELSE h,
                                co),
                 id, co, i, IF id \in DOMAIN rs THEN rs[id] ELSE "OK", wr, clk)
        ELSE h

\* for (interest = entry->list; interest != NULL; interest = interest->next)
RECURSIVE DispatchList(_, _, _, _, _, _, _)
DispatchList(h, ids, co, i, rs, wr, clk) ==
    IF ids = <<>> THEN h
    ELSE DispatchList(DeliverContent(h, Head(ids), co, i, rs, wr, clk),
                      Tail(ids), co, i, rs, wr, clk)

\* for (i = comps->n - 1; i >= 0; i--), ContentObject branch
RECURSIVE DispatchContent(_, _, _, _, _, _)
DispatchContent(h, co, i, rs, wr, clk) ==
    IF i < 0 THEN h
    ELSE DispatchContent(
             IF Prefix(co.name, i) \in DOMAIN h.interests_by_prefix
             THEN DispatchList(h, h.interests_by_prefix[Prefix(co.name, i)],
                               co, i, rs, wr, clk)
             ELSE h,
             co, i - 1, rs, wr, clk)

\* An upcall kind that goes back to INTEREST after an upcall that did not
\* consume; C6 does not survive it.
NextInterestKind_Reverts(upcall_kind, ures) ==
    IF ures = "INTEREST_CONSUMED" THEN "CONSUMED_INTEREST" ELSE "INTEREST"

\* if (ures == CCN_UPCALL_RESULT_INTEREST_CONSUMED)
\*     upcall_kind = CCN_UPCALL_CONSUMED_INTEREST, lines 967-968.
NextInterestKind(upcall_kind, ures) ==
    IF ures = "INTEREST_CONSUMED" THEN "CONSUMED_INTEREST" ELSE upcall_kind

\* for (i = comps->n - 1; i >= 0; i--), Interest branch.  fs[i] is what the
\* application's filter upcall at i matched components returns.
RECURSIVE DispatchInterest(_, _, _, _, _)
DispatchInterest(h, im, i, upcall_kind, fs) ==
    IF i < 0 THEN h
    ELSE IF Prefix(im.name, i) \in DOMAIN h.interest_filters
    THEN LET action == h.interest_filters[Prefix(im.name, i)]
             ures == UpcallResult(h, action, upcall_kind, fs[i])
         IN  DispatchInterest(Upcall(h, action, upcall_kind, ures, im, 0, i),
                              im, i - 1,
                              NextInterestKind(upcall_kind, ures), fs)
    ELSE DispatchInterest(h, im, i - 1, upcall_kind, fs)

\* A dispatcher that leaves without counting itself out.
DispatchDone_StillIn(h) == h

\* h->running--, line 1047.
DispatchDone(h) == [h EXCEPT !.running = @ - 1]

\* ccn_dispatch_message
ccn_dispatch_message(h, msg, rs, fs, wr, clk) ==
    DispatchDone(
        IF msg.mt = "interest"
        THEN DispatchInterest([h EXCEPT !.running = @ + 1], msg, Len(msg.name),
                              "INTEREST", fs)
        ELSE IF msg.mt = "content"
        THEN DispatchContent([h EXCEPT !.running = @ + 1], msg, Len(msg.name),
                             rs, wr, clk)
        ELSE [h EXCEPT !.running = @ + 1])

(* ------------------------------ scheduler ----------------------------- *)
\* interest->lasttime = h->now; while (delta > lasttime.tv_usec) {...};
\* lasttime.tv_usec -= delta
RECURSIVE SubtractDelta(_, _)
SubtractDelta(t, delta) ==
    IF delta > t.tv_usec
    THEN SubtractDelta([t EXCEPT !.tv_sec = @ - 1], delta - MICROSEC_PER_SEC)
    ELSE [t EXCEPT !.tv_usec = @ - delta]

\* An ageing that never finds a record expired; C12 does not survive it.
AgeClock_NoExpiry(h, id) == h

\* An ageing without the fixup: the delta is taken from lasttime as it is.
HealOld_Never(h, id) == h

\* if (interest->lasttime.tv_sec + 30 < h->now.tv_sec) {...}, lines 1113-1118.
HealOld(h, id) ==
    IF h.interests[id].lasttime.tv_sec + HEAL_SEC < h.now.tv_sec
    THEN [h EXCEPT !.interests[id].outstanding = 0,
                   !.interests[id].lasttime =
                       Timeval(h.now.tv_sec - HEAL_SEC, h.now.tv_usec)]
    ELSE h

\* ds * 1000000 + du stored in the int delta: what is left of it in 32 bits
\* (2^31 is 2147 s 483648 us, 2^32 is 4294 s 967296 us).
IntDelta(ds, du) ==
    IF ds > 2147 \/ (ds = 2147 /\ du > 483647)
    THEN (ds - 4294) * MICROSEC_PER_SEC + (du - 967296)
    ELSE ds * MICROSEC_PER_SEC + du

\* An ageing that clears outstanding on expiry and keeps the delta: the
\* deadline of an expired record is then zero or in the past.
AgeDelta_ExpiredKept(h, id) ==
    LET i == h.interests[id]
        delta0 == IntDelta(h.now.tv_sec - i.lasttime.tv_sec,
                           h.now.tv_usec - i.lasttime.tv_usec)
        expired == delta0 >= CCN_INTEREST_LIFETIME_MICROSEC
        delta == IF delta0 < 0 THEN 0 ELSE delta0
    IN  [h EXCEPT !.interests[id].outstanding = IF expired THEN 0 ELSE @,
                  !.interests[id].lasttime = SubtractDelta(h.now, delta),
                  !.refresh_us = Min(@, CCN_INTEREST_LIFETIME_MICROSEC - delta),
                  !.io.aged = Append(@, [id |-> id, delta |-> delta0])]

\* delta = ...; the clamps; h->refresh_us; interest->lasttime, lines
\* 1119-1135.  The pass keeps a note of each delta as first computed.
AgeDelta(h, id) ==
    LET i == h.interests[id]
        delta0 == IntDelta(h.now.tv_sec - i.lasttime.tv_sec,
                           h.now.tv_usec - i.lasttime.tv_usec)
        expired == delta0 >= CCN_INTEREST_LIFETIME_MICROSEC
        delta == IF expired \/ delta0 < 0 THEN 0 ELSE delta0
    IN  [h EXCEPT !.interests[id].outstanding = IF expired THEN 0 ELSE @,
                  !.interests[id].lasttime = SubtractDelta(h.now, delta),
                  !.refresh_us = Min(@, CCN_INTEREST_LIFETIME_MICROSEC - delta),
                  !.io.aged = Append(@, [id |-> id, delta |-> delta0])]

\* The clock arithmetic of ccn_age_interest, lines 1113-1135: outstanding,
\* lasttime and h->refresh_us afterwards.
AgeClock(h, id) == AgeDelta(HealOld(h, id), id)

\* A timeout whose answer changes nothing: the record asks on whatever the
\* upcall said.
AgeDone_TargetKept(h, id, ures, wr, clk) ==
    IF ures = "REEXPRESS" THEN ccn_refresh_interest(h, id, wr, clk) ELSE h

\* What follows the timeout upcall, lines 1161-1164.
AgeDone(h, id, ures, wr, clk) ==
    IF ures = "REEXPRESS" THEN ccn_refresh_interest(h, id, wr, clk)
    ELSE [h EXCEPT !.interests[id].target = 0]

\* if (interest->target > 0 && interest->outstanding == 0) {...}, lines
\* 1136-1165.  r is what the application's upcall returns.
AgeUpcall(h, id, firstcall, r, wr, clk) ==
    LET i == h.interests[id]
        parsed == i.interest_msg # <<>>
        ures == IF firstcall THEN "REEXPRESS"
                ELSE IF parsed THEN UpcallResult(h, i.action, "INTEREST_TIMED_OUT", r)
                ELSE "ERR"
    IN  IF i.target > 0 /\ i.outstanding = 0
        THEN AgeDone(IF ~firstcall /\ parsed
                     THEN Upcall(h, i.action, "INTEREST_TIMED_OUT", ures, Garbage, id, -1)
                     ELSE h,
                     id, ures, wr, clk)
        ELSE h

\* ccn_age_interest.  rs[id] is what the application's upcall returns.
ccn_age_interest(h, id, rs, wr, clk) ==
    AgeUpcall(AgeClock(h, id), id, h.interests[id].lasttime.tv_sec = 0,
              IF id \in DOMAIN rs THEN rs[id] ELSE "OK", wr, clk)

\* ccn_destroy_interest: the record is released and freed.
ccn_destroy_interest(h, id) ==
    LET h1 == ccn_replace_handler(h, InterestSlot(id), NULL)
    IN  [h1 EXCEPT !.interests = Unbind(@, id)]

RECURSIVE DestroyEach(_, _)
DestroyEach(h, ids) ==
    IF ids = <<>> THEN h
    ELSE DestroyEach(ccn_destroy_interest(h, Head(ids)), Tail(ids))

\* A sweep that keeps only the records still asking for content.
KeptInterest_LiveOnly(h, id) == h.interests[id].target > 0

\* The entries a sweep keeps.
KeptInterest(h, id) == h.interests[id].action # NULL

\* The list relinked without the destroyed records.
Relink(h, key, list) == [h EXCEPT !.interests_by_prefix[key] = list]

\* ccn_clean_interests_by_prefix
ccn_clean_interests_by_prefix(h, key) ==
    LET list == h.interests_by_prefix[key]
        Dead(id) == ~KeptInterest(h, id)
        Kept(id) == KeptInterest(h, id)
    IN  Relink(DestroyEach(h, SelectSeq(list, Dead)), key, SelectSeq(list, Kept))

\* if (entry->list == NULL) hashtb_delete(e), lines 1177-1178.
DeleteIfEmpty(h, key) ==
    IF h.interests_by_prefix[key] = <<>>
    THEN [h EXCEPT !.interests_by_prefix = Unbind(@, key)]
    ELSE h

\* ccn_clean_all_interests: k walks the enumeration order.
RECURSIVE ccn_clean_all_interests(_, _)
ccn_clean_all_interests(h, k) ==
    IF k > Len(KeyOrder) THEN h
    ELSE IF KeyOrder[k] \notin DOMAIN h.interests_by_prefix
    THEN ccn_clean_all_interests(h, k + 1)
    ELSE ccn_clean_all_interests(
             DeleteIfEmpty(ccn_clean_interests_by_prefix(h, KeyOrder[k]), KeyOrder[k]),
             k + 1)

\* if (ie->target == 0 && ie->wanted_pub == NULL) {...}, lines 1225-1229: the
\* handle afterwards and whether need_clean is set.
SweepMark(h, id, need_clean) ==
    IF h.interests[id].target = 0 /\ h.interests[id].wanted_pub = NULL
    THEN [h |-> replace_interest_msg(
                    ccn_replace_handler(h, InterestSlot(id), NULL), id, <<>>),
          need_clean |-> TRUE]
    ELSE [h |-> h, need_clean |-> need_clean]

\* A scheduler that ages every record, parked or retired as it may be.
AgeIfActive_Always(h, id, rs, wr, clk) == ccn_age_interest(h, id, rs, wr, clk)

\* if (ie->target != 0) ccn_age_interest(...), lines 1223-1224.
AgeIfActive(h, id, rs, wr, clk) ==
    IF h.interests[id].target # 0 THEN ccn_age_interest(h, id, rs, wr, clk) ELSE h

\* The body of the loop over one list in ccn_process_scheduled_operations,
\* lines 1222-1229.
SchedInterest(h, id, need_clean, rs, wr, clk) ==
    SweepMark(AgeIfActive(ccn_check_pub_arrival(h, id, wr, clk), id, rs, wr, clk),
              id, need_clean)

\* for (ie = entry->list; ie != NULL; ie = ie->next).  r is the handle and
\* need_clean so far.
RECURSIVE SchedList(_, _, _, _, _)
SchedList(r, ids, rs, wr, clk) ==
    IF ids = <<>> THEN r
    ELSE SchedList(SchedInterest(r.h, Head(ids), r.need_clean, rs, wr, clk),
                   Tail(ids), rs, wr, clk)

\* for (hashtb_start(h->interests_by_prefix, e); e->data != NULL; hashtb_next(e))
RECURSIVE SchedBuckets(_, _, _, _, _)
SchedBuckets(r, k, rs, wr, clk) ==
    IF k > Len(KeyOrder) THEN r
    ELSE IF KeyOrder[k] \notin DOMAIN r.h.interests_by_prefix
    THEN SchedBuckets(r, k + 1, rs, wr, clk)
    ELSE IF r.h.interests_by_prefix[KeyOrder[k]] = <<>>
    THEN SchedBuckets([r EXCEPT !.need_clean = TRUE], k + 1, rs, wr, clk)
    ELSE SchedBuckets(SchedList(r, r.h.interests_by_prefix[KeyOrder[k]], rs, wr, clk),
                      k + 1, rs, wr, clk)

\* if (need_clean) ccn_clean_all_interests(h); h->running--, lines 1234-1238.
SchedDone(r) ==
    LET h == [r.h EXCEPT !.running = @ - 1]
    IN  IF r.need_clean THEN Ret(ccn_clean_all_interests(h, 1), h.refresh_us)
        ELSE Ret(h, h.refresh_us)

\* A scheduler that starts from one lifetime instead of five; C20 does not
\* survive it.
SchedStart_OneLifetime(h, clk) ==
    [h EXCEPT !.refresh_us = CCN_INTEREST_LIFETIME_MICROSEC, !.now = clk]

\* h->refresh_us = 5 * CCN_INTEREST_LIFETIME_MICROSEC; gettimeofday(&h->now),
\* lines 1199-1204.
SchedStart(h, clk) ==
    [h EXCEPT !.refresh_us = 5 * CCN_INTEREST_LIFETIME_MICROSEC, !.now = clk]

\* ccn_process_scheduled_operations: clk is what gettimeofday reads.
ccn_process_scheduled_operations(h, rs, wr, clk) ==
    IF ccn_output_is_pending(h) THEN Ret(SchedStart(h, clk), SchedStart(h, clk).refresh_us)
    ELSE SchedDone(SchedBuckets(
             [h |-> [SchedStart(h, clk) EXCEPT !.running = @ + 1], need_clean |-> FALSE],
             1, rs, wr, clk))

(* ------------------------- connect and destroy ------------------------ *)
\* ccn_disconnect: close(2) of a closed socket fails with EBADF.
ccn_disconnect(h) ==
    LET h1 == [h EXCEPT !.inbuf = <<>>, !.outbuf = <<>>, !.sock = -1,
                        !.io.closed = Append(@, h.sock)]
    IN  IF h.sock = -1 THEN Ret(NOTE_ERR(h1, 9), -1) ELSE Ret(h1, 0)

(* --------------------------- incoming framer -------------------------- *)
\* What read(2) returns: bytes, end of stream, or -1 with errno.
ReadData(c) == [res |-> Len(c), errno |-> 0, bytes |-> c]
ReadEOF == [res |-> 0, errno |-> 0, bytes |-> <<>>]
ReadFails(e) == [res |-> -1, errno |-> e, bytes |-> <<>>]

\* A slice that always begins at the start of the buffer.
MessageSlice_FromStart(h, msgstart) == SubSeq(h.inbuf, 1, h.decoder.index)

\* inbuf->buf + msgstart, d->index - msgstart, lines 1079-1080.
MessageSlice(h, msgstart) == SubSeq(h.inbuf, msgstart + 1, h.decoder.index)

\* if (msgstart < inbuf->length && msgstart > 0) {...}, lines 1089-1095: the
\* partial message moves to the start of the buffer.
InputTail(h, msgstart) ==
    IF msgstart < Len(h.inbuf) /\ msgstart > 0
    THEN [h EXCEPT !.inbuf = SubSeq(@, msgstart + 1, Len(@)),
                   !.decoder.index = @ - msgstart]
    ELSE h

RECURSIVE InputLoop(_, _, _, _, _, _)
RECURSIVE InputNext(_, _, _, _, _)
\* msgstart = d->index and the rest of the loop body, lines 1081-1087.
InputNext(h, rs, fs, wr, clk) ==
    IF h.decoder.index = Len(h.inbuf) THEN Ret([h EXCEPT !.inbuf = <<>>], 0)
    ELSE InputLoop(
             [h EXCEPT !.decoder =
                 ccn_skeleton_decode(@, SubSeq(h.inbuf, h.decoder.index + 1, Len(h.inbuf))).d],
             h.decoder.index, rs, fs, wr, clk)

\* while (d->state == 0) {...}, lines 1078-1088: the slice handed to
\* ccn_dispatch_message is recorded.
InputLoop(h, msgstart, rs, fs, wr, clk) ==
    IF h.decoder.state # 0 THEN Ret(InputTail(h, msgstart), 0)
    ELSE InputNext(
             ccn_dispatch_message(
                 [h EXCEPT !.io.dispatched = Append(@, MessageSlice(h, msgstart))],
                 Parse(MessageSlice(h, msgstart)), rs, fs, wr, clk),
             rs, fs, wr, clk)

\* ccn_process_input from the read on, lines 1063-1096; read(2) on a closed
\* descriptor fails with EBADF.
InputRead(h, rd, rs, fs, wr, clk) ==
    IF h.sock = -1 THEN Ret(NOTE_ERR(h, 9), -1)
    ELSE IF rd.res = 0 THEN Ret(ccn_disconnect(h).h, -1)
    ELSE IF rd.res = -1 /\ rd.errno # EAGAIN THEN Ret(NOTE_ERR(h, rd.errno), -1)
    ELSE InputLoop([h EXCEPT !.inbuf = @ \o rd.bytes,
                             !.decoder = ccn_skeleton_decode(@, rd.bytes).d],
                   0, rs, fs, wr, clk)

\* ccn_process_input
ccn_process_input(h, rd, rs, fs, wr, clk) ==
    InputRead([h EXCEPT !.decoder = IF Len(h.inbuf) = 0 THEN Decoder0 ELSE @],
              rd, rs, fs, wr, clk)

(* ------------------------------ event loop ---------------------------- *)
\* What poll(2) returns: 0 on a timeout, 1 when the socket is ready, -1 with
\* EINTR when a signal arrives, -1 with another errno when it fails.
PollResult(pl) == IF pl = "ready" THEN 1 ELSE IF pl = "timeout" THEN 0 ELSE -1

\* ccn_run leaves the loop with res, line 1321.
RunExit(h, res) == [h |-> h, run |-> NotRunning, ret |-> IF res < 0 THEN res ELSE 0]

\* if (h->timeout == 0) break, lines 1316-1318: the loop ends or goes round.
RunEnd(h, fr, res) ==
    IF h.timeout = 0 THEN RunExit(h, res)
    ELSE [h |-> h, run |-> [fr EXCEPT !.res = res], ret |-> "again"]

\* if (h->err == ENOTCONN) ccn_disconnect(h), lines 1314-1315.
RunWake(h, fr, res) ==
    RunEnd(IF h.err = ENOTCONN THEN ccn_disconnect(h).h ELSE h, fr, res)

\* if (res > 0) {...}, lines 1308-1313: both tests are on revents | flag, so
\* ccn_pushout and ccn_process_input are both called.
RunReady(h, in) ==
    ccn_process_input(ccn_pushout(h, in.wr).h, in.rd, in.rs, in.fs, in.wr, in.clk).h

\* millisec = microsec / 1000, clipped to the run timeout, lines 1300-1302.
PollTimeout(microsec, tmo) ==
    IF tmo >= 0 /\ tmo < microsec \div 1000 THEN tmo ELSE microsec \div 1000

\* poll and what follows it, lines 1296-1313: the timeout given to poll is
\* recorded with the number of upcalls made before it in this iteration.
RunPoll(h, fr, microsec, in) ==
    IF in.pl = "error"
    THEN RunExit(NOTE_ERR([h EXCEPT !.io.polls =
                              Append(@, [ms |-> PollTimeout(microsec, h.timeout),
                                         after |-> Len(h.upcalls)])], 4 + 8), -1)
    ELSE RunWake(IF PollResult(in.pl) > 0
                 THEN RunReady([h EXCEPT !.io.polls =
                                   Append(@, [ms |-> PollTimeout(microsec, h.timeout),
                                              after |-> Len(h.upcalls)])], in)
                 ELSE [h EXCEPT !.io.polls =
                          Append(@, [ms |-> PollTimeout(microsec, h.timeout),
                                     after |-> Len(h.upcalls)])],
                 fr, PollResult(in.pl))

\* The milliseconds from start to now, lines 1290-1291.
Millis(start, t) ==
    (t.tv_sec - start.tv_sec) * 1000 + (t.tv_usec - start.tv_usec) \div 1000

\* timeout = h->timeout and the deadline, lines 1285-1295; r is what
\* ccn_process_scheduled_operations returned.
RunTimed(r, fr, in) ==
    IF fr.start.tv_sec = 0 THEN RunPoll(r.h, [fr EXCEPT !.start = r.h.now], r.ret, in)
    ELSE IF r.h.timeout >= 0 /\ Millis(fr.start, r.h.now) > r.h.timeout
    THEN RunExit(r.h, 0)
    ELSE RunPoll(r.h, fr, r.ret, in)

\* One iteration of the loop of ccn_run, lines 1280-1318.
RunLoop(h, fr, in) ==
    IF h.sock = -1 THEN RunExit(h, -1)
    ELSE RunTimed(ccn_process_scheduled_operations(h, in.rs, in.wr, in.clk), fr, in)

(* ------------------------------ teardown ------------------------------ *)
RECURSIVE ReleaseFilters(_, _)
ReleaseFilters(h, k) ==
    IF k > Len(KeyOrder) THEN h
    ELSE IF KeyOrder[k] \notin DOMAIN h.interest_filters
    THEN ReleaseFilters(h, k + 1)
    ELSE ReleaseFilters(ccn_replace_handler(h, FilterSlot(KeyOrder[k]), NULL), k + 1)

\* A teardown that frees only the records still asking for content and
\* leaves the parked and the retired ones where they are.
RECURSIVE DestroyBuckets_LiveOnly(_, _)
DestroyBuckets_LiveOnly(h, k) ==
    IF k > Len(KeyOrder) THEN h
    ELSE IF KeyOrder[k] \notin DOMAIN h.interests_by_prefix
    THEN DestroyBuckets_LiveOnly(h, k + 1)
    ELSE DestroyBuckets_LiveOnly(
             [DestroyEach(h, SelectSeq(h.interests_by_prefix[KeyOrder[k]],
                                       LAMBDA id : h.interests[id].target > 0))
                 EXCEPT !.interests_by_prefix[KeyOrder[k]] = <<>>], k + 1)

RECURSIVE DestroyBuckets(_, _)
DestroyBuckets(h, k) ==
    IF k > Len(KeyOrder) THEN h
    ELSE IF KeyOrder[k] \notin DOMAIN h.interests_by_prefix
    THEN DestroyBuckets(h, k + 1)
    ELSE DestroyBuckets(
             [DestroyEach(h, h.interests_by_prefix[KeyOrder[k]])
                 EXCEPT !.interests_by_prefix[KeyOrder[k]] = <<>>], k + 1)

\* ccn_destroy
ccn_destroy(h) ==
    [ReleaseFilters(
         [DestroyBuckets(ccn_disconnect(h).h, 1) EXCEPT !.interests_by_prefix = << >>],
         1)
       EXCEPT !.interest_filters = << >>, !.keys = {},
              !.io.freed = Append(@, h.keytab)]

(* ------------------------------- actions ------------------------------ *)
\* ccn_connect: what socket(2), connect(2) and fcntl(2) do.
ConnectOutcomes == {"ok", "socket_fails", "connect_fails", "fcntl_fails"}

\* A connect that takes a new socket whether or not the handle has one and
\* starts the output afresh.
ccn_connect_Again(h, outcome) ==
    Ret([h EXCEPT !.err = 0, !.sock = 3, !.outbuf = <<>>], 3)

\* ccn_connect
ccn_connect(h, outcome) ==
    LET h0 == [h EXCEPT !.err = 0]
    IN  IF h0.sock # -1 THEN Ret(NOTE_ERR(h0, EINVAL), -1)
        ELSE IF outcome = "socket_fails" THEN Ret(NOTE_ERR(h0, 24), -1)
        ELSE IF outcome = "connect_fails"
        THEN Ret(NOTE_ERR([h0 EXCEPT !.sock = 3], 111), -1)
        ELSE IF outcome = "fcntl_fails"
        THEN Ret(NOTE_ERR([h0 EXCEPT !.sock = 3], 9), -1)
        ELSE Ret([h0 EXCEPT !.sock = 3], 3)

(* ------------------------------- ccn_get ------------------------------ *)
\* ccn_create: a handle of its own, with a key table of its own.  The
\* closures and the logs of the operation are not the handle's.
ccn_create(h) ==
    [h EXCEPT !.sock = -1, !.outbuf = <<>>, !.interests_by_prefix = << >>,
              !.interests = << >>, !.interest_filters = << >>,
              !.keys = {}, !.keytab = "nested", !.now = Timeval(0, 0),
              !.running = 0, !.refresh_us = 0, !.err = 0, !.inbuf = <<>>,
              !.decoder = Decoder0, !.timeout = 0, !.cb = "none"]

\* The loop of ccn_run, lines 1279-1318, run to its end: passes[k] is what
\* the k-th iteration meets.
RECURSIVE GetRun(_, _, _, _)
GetRunNext(r, passes, k) ==
    IF r.run.active THEN GetRun(r.h, r.run, passes, k + 1) ELSE Ret(r.h, r.ret)

GetRun(h, fr, passes, k) ==
    IF k > Len(passes) THEN Ret([h EXCEPT !.overflow = TRUE], -1)
    ELSE GetRunNext(RunLoop(h, fr, passes[k]), passes, k)

\* ccn_run
ccn_run(h, tmo, passes) ==
    IF RunEntry(h, tmo).ret < 0 THEN RunEntry(h, tmo)
    ELSE GetRun(RunEntry(h, tmo).h, [NotRunning EXCEPT !.active = TRUE], passes, 1)

\* if (res >= 0) res = ccn_run(h, timeout_ms), lines 1427-1428.
GetExpressed(r, g) ==
    IF r.ret >= 0 THEN ccn_run(r.h, g.timeout_ms, g.passes) ELSE r

\* md->res: 0 once the closure has had its content upcall, which is one of
\* the upcalls made after the first from.
GetMdRes(h, from) ==
    IF \E k \in (from + 1)..Len(h.upcalls) :
          /\ h.upcalls[k].clo = GetClosure
          /\ h.upcalls[k].kind \in {"CONTENT", "CONTENT_UNVERIFIED"}
    THEN 0 ELSE -1

\* if (res >= 0) res = md->res and the release of ccn_get's own reference,
\* lines 1429-1437.
GetDone(r, from) ==
    Ret([r.h EXCEPT !.intdata = 0, !.refcount[GetClosure] = @ - 1],
        IF r.ret >= 0 THEN GetMdRes(r.h, from) ELSE r.ret)

\* The closure, the Interest and the loop, lines 1417-1437.
GetBody(h, g) ==
    GetDone(GetExpressed(
                ccn_express_interest([h EXCEPT !.refcount[GetClosure] = 1, !.intdata = 1],
                                     g.name, -1, GetClosure, g.templ, "full", g.clk),
                g),
            Len(h.upcalls))

\* ccn_get returns to its caller, whose handle is h: n is the handle ccn_get
\* worked on, destroyed if it was not h; table is what the caller's key
\* table holds now.  A table that hashtb_destroy was given is freed memory,
\* and what the caller finds there is whatever g.dangling says.
GetReturn(h, n, g, nested, ret, table) ==
    Ret([(IF nested THEN h ELSE n)
            EXCEPT !.upcalls = n.upcalls, !.sent = n.sent, !.refcount = n.refcount,
                   !.overflow = n.overflow,
                   !.keys = IF \E k \in 1..Len(n.io.freed) : n.io.freed[k] = h.keytab
                           THEN g.dangling ELSE table,
                   !.io = [n.io EXCEPT !.gets =
                              Append(@, [nested |-> nested, connect |-> g.connect,
                                         templ |-> g.templ, ret |-> ret,
                                         content |-> GetMdRes(n, Len(h.upcalls)) = 0,
                                         freed |-> SubSeq(n.io.freed, Len(h.io.freed) + 1,
                                                          Len(n.io.freed))])]],
        ret)

\* if (h != orig_h) {...}, lines 1438-1442: the handle gets its own key
\* table back and is destroyed.
GetLeave(r, h, g) ==
    GetReturn(h, ccn_destroy([r.h EXCEPT !.keys = {}, !.keytab = "nested"]), g, TRUE,
              r.ret, r.h.keys)

\* res = ccn_connect(h, NULL) and what follows, lines 1411-1415.
GetConnected(r, h, g) ==
    IF r.ret < 0 THEN GetReturn(h, ccn_destroy(r.h), g, TRUE, -1, r.h.keys)
    ELSE GetLeave(GetBody(r.h, g), h, g)

\* h = ccn_create() and the borrowing of the keys, lines 1404-1410.
GetNested(h, g) ==
    GetConnected(ccn_connect([ccn_create(h) EXCEPT !.keys = h.keys, !.keytab = h.keytab],
                             g.connect),
                 h, g)

\* The call on the caller's own handle, lines 1417-1437.
GetOwn(r, h, g) == GetReturn(h, r.h, g, FALSE, r.ret, r.h.keys)

\* ccn_get.  One struct simple_get_data lives at a time.
ccn_get(h, g) ==
    IF h.refcount[GetClosure] # 0 THEN Ret([h EXCEPT !.overflow = TRUE], -1)
    ELSE IF h.running # 0 THEN GetNested(h, g)
    ELSE GetOwn(GetBody(h, g), h, g)

\* The state after an operation that leaves the handle as h2.
Commit(h2, op) ==
    /\ ~h2.overflow
    /\ Backlog(h2.outbuf) <= MaxOutbuf
    /\ sock' = h2.sock
    /\ outbuf' = h2.outbuf
    /\ interests_by_prefix' = h2.interests_by_prefix
    /\ interests' = h2.interests
    /\ interest_filters' = h2.interest_filters
    /\ keys' = h2.keys
    /\ now' = h2.now
    /\ running' = h2.running
    /\ refresh_us' = h2.refresh_us
    /\ err' = h2.err
    /\ refcount' = h2.refcount
    /\ upcalls' = h2.upcalls
    /\ sent' = h2.sent
    /\ lastop' = op
    /\ inbuf' = h2.inbuf
    /\ decoder' = h2.decoder
    /\ timeout' = h2.timeout
    /\ tap' = h2.tap
    /\ io' = h2.io

\* The wall clock d seconds after the last reading.
Clock(d) == Timeval((IF now.tv_sec = 0 THEN T0 ELSE now.tv_sec) + d, 0)

\* The records whose upcall a ContentObject can reach.
Candidates(co) ==
    {id \in DOMAIN interests :
        /\ interests[id].action \in UserClosures
        /\ interests[id].target > 0
        /\ interests[id].outstanding > 0
        /\ interests[id].interest_msg # <<>>
        /\ ccn_content_matches_interest(co, interests[id].interest_msg[1])}

\* The records whose upcall a scheduler pass can reach.
Ageable == {id \in DOMAIN interests : interests[id].action \in UserClosures}

\* ccn_create, the tap file of CCN_TAP opened as descriptor tapfd (-1: none).
Created(tapfd) ==
    /\ inbuf = <<>>
    /\ decoder = Decoder0
    /\ timeout = 0
    /\ tap = tapfd
    /\ io = NoIO
    /\ run = NotRunning

Init ==
    /\ Created(-1)
    /\ alive = TRUE
    /\ sock = -1
    /\ outbuf = <<>>
    /\ interests_by_prefix = << >>
    /\ interests = << >>
    /\ interest_filters = << >>
    /\ keys = {}
    /\ now = Timeval(0, 0)
    /\ running = 0
    /\ refresh_us = 0
    /\ err = 0
    /\ refcount = [c \in Closures |-> 0]
    /\ upcalls = <<>>
    /\ sent = <<>>
    /\ lastop = Op("create", <<>>, 0)

\* ccn_connect with socket(2), connect(2) and fcntl(2) behaving as one of outcomes.
Connect(outcomes) ==
    /\ alive
    /\ \E outcome \in outcomes :
          LET r == ccn_connect(Handle, outcome)
          IN  Commit(r.h, Op("connect", <<>>, r.ret))
    /\ UNCHANGED <<alive, run>>

Disconnect ==
    /\ alive
    /\ LET r == ccn_disconnect(Handle)
       IN  Commit(r.h, Op("disconnect", <<>>, r.ret))
    /\ UNCHANGED <<alive, run>>

\* ccn_express_interest by the application.
Express(names, pcs, actions, templs, wrs) ==
    /\ alive
    /\ \E name \in names, pc \in pcs, action \in actions, templ \in templs, wr \in wrs :
          LET r == ccn_express_interest(Handle, name, pc, action, templ, wr, Clock(0))
          IN  Commit(r.h, Op("express_interest", <<>>, r.ret))
    /\ UNCHANGED <<alive, run>>

\* ccn_set_interest_filter by the application.
SetFilter(names, actions) ==
    /\ alive
    /\ \E name \in names, action \in actions :
          LET r == ccn_set_interest_filter(Handle, name, action)
          IN  Commit(r.h, Op("set_interest_filter", [name |-> name, action |-> action], r.ret))
    /\ UNCHANGED <<alive, run>>

\* ccn_dispatch_message of a ContentObject.
DispatchContentObject(contents, results, wrs) ==
    /\ alive
    /\ \E co \in contents, wr \in wrs :
          \E rs \in [Candidates(co) -> results] :
             Commit(ccn_dispatch_message(Handle, co, rs, << >>, wr, Clock(0)),
                    Op("dispatch_message", co, 0))
    /\ UNCHANGED <<alive, run>>

\* ccn_dispatch_message of an Interest.
DispatchIncomingInterest(ims, results) ==
    /\ alive
    /\ \E im \in ims :
          \E fs \in [0..Len(im.name) -> results] :
             Commit(ccn_dispatch_message(Handle, im, << >>, fs, "full", Clock(0)),
                    Op("dispatch_message", im, 0))
    /\ UNCHANGED <<alive, run>>

\* ccn_dispatch_message of bytes that are no message.
DispatchGarbage ==
    /\ alive
    /\ Commit(ccn_dispatch_message(Handle, Garbage, << >>, << >>, "full", Clock(0)),
              Op("dispatch_message", Garbage, 0))
    /\ UNCHANGED <<alive, run>>

\* ccn_process_scheduled_operations, the wall clock having moved by one of advances.
Sched(advances, results, wrs) ==
    /\ alive
    /\ \E d \in advances, wr \in wrs :
          /\ Clock(d).tv_sec <= T0 + MaxElapsed
          /\ \E rs \in [Ageable -> results] :
                LET r == ccn_process_scheduled_operations(Handle, rs, wr, Clock(d))
                IN  Commit(r.h, Op("process_scheduled_operations", <<>>, r.ret))
    /\ UNCHANGED <<alive, run>>

\* ccn_process_scheduled_operations with gettimeofday reading one of readings,
\* never earlier than the reading before.
SchedAt(readings, results, wrs) ==
    /\ alive
    /\ \E clk \in readings, wr \in wrs :
          /\ \/ clk.tv_sec > now.tv_sec
             \/ clk.tv_sec = now.tv_sec /\ clk.tv_usec >= now.tv_usec
          /\ \E rs \in [Ageable -> results] :
                LET r == ccn_process_scheduled_operations(Handle, rs, wr, clk)
                IN  Commit(r.h, Op("process_scheduled_operations", <<>>, r.ret))
    /\ UNCHANGED <<alive, run>>

\* ccn_put by the application.
Put(msgs, wrs) ==
    /\ alive
    /\ \E p \in msgs, wr \in wrs :
          LET r == ccn_put(Handle, p, wr)
          IN  Commit(r.h, Op("put", [p |-> p, wr |-> wr], r.ret))
    /\ UNCHANGED <<alive, run>>

\* The POLLIN branch of ccn_run: ccn_process_input with read(2) returning one
\* of reads, every upcall answering OK or, for a filter, one of fresults.
ProcessInput(reads, fresults) ==
    /\ alive
    /\ \E rd \in reads, fr \in fresults :
          LET r == ccn_process_input(Handle, rd, [id \in DOMAIN interests |-> "OK"],
                                     [i \in 0..3 |-> fr], "full", Clock(0))
          IN  /\ Len(r.h.inbuf) <= MaxInbuf
              /\ Commit(r.h, Op("process_input", rd, r.ret))
    /\ UNCHANGED <<alive, run>>

\* ccn_run called by the application, up to the loop.
RunCall(timeouts) ==
    /\ alive /\ ~run.active
    /\ \E t \in timeouts :
          LET r == RunEntry(Handle, t)
          IN  /\ Commit(r.h, Op("run_call", t, r.ret))
              /\ run' = IF r.ret = 0 THEN [NotRunning EXCEPT !.active = TRUE] ELSE run
    /\ UNCHANGED alive

\* One iteration of the loop of ccn_run: the wall clock has moved by one of
\* advances, poll(2), read(2) and write(2) behave as one of polls, reads and
\* wrs, the application's upcalls answer one of results and do one of cbs.
RunIteration(advances, results, polls, reads, wrs, cbs) ==
    /\ alive /\ run.active
    /\ \E d \in advances, pl \in polls, rd \in reads, wr \in wrs, cb \in cbs :
          /\ Clock(d).tv_sec <= T0 + MaxElapsed
          /\ \E rs \in [Ageable -> results] :
                LET r == RunLoop([Handle EXCEPT !.cb = cb], run,
                                 [rs |-> rs, fs |-> [i \in 0..3 |-> "OK"], wr |-> wr,
                                  clk |-> Clock(d), pl |-> pl, rd |-> rd])
                IN  /\ Commit([r.h EXCEPT !.cb = "none"],
                              Op("run", [poll |-> pl, rd |-> rd, cb |-> cb], r.ret))
                    /\ run' = r.run
    /\ UNCHANGED alive

\* The POLLOUT branch of ccn_run.
Pushout(wrs) ==
    /\ alive
    /\ \E wr \in wrs :
          LET r == ccn_pushout(Handle, wr)
          IN  Commit(r.h, Op("pushout", <<>>, r.ret))
    /\ UNCHANGED <<alive, run>>

\* ccn_get called by the application outside any upcall.
Get(gets) ==
    /\ alive
    /\ \E g \in gets :
          LET r == ccn_get(Handle, g)
          IN  /\ r.h.now.tv_sec <= T0 + MaxElapsed
              /\ Commit(r.h, Op("get", [connect |-> g.connect, templ |-> g.templ], r.ret))
    /\ UNCHANGED <<alive, run>>

\* ccn_dispatch_message of a ContentObject, the application's content upcall
\* calling ccn_get.
DispatchWithGet(contents, gets) ==
    /\ alive
    /\ \E co \in contents, g \in gets :
          Commit(ccn_dispatch_message([Handle EXCEPT !.cb = "get", !.getin = g], co,
                                      [id \in Candidates(co) |-> "OK"], << >>, "full",
                                      Clock(0)),
                 Op("dispatch_message", co, 0))
    /\ UNCHANGED <<alive, run>>

Destroy ==
    /\ alive
    /\ Commit(ccn_destroy(Handle), Op("destroy", <<>>, 0))
    /\ alive' = FALSE
    /\ UNCHANGED run

\* The interest engine: one application closure expressing Interests, content
\* of every KeyLocator shape arriving, the scheduler running with the clock
\* standing still or a whole lifetime later.
Next ==
    \/ Connect({"ok"})
    \/ Express(ExprNames, {-1}, {"c1"}, {"none"}, {"full"})
    \/ DispatchContentObject(Contents, Results, {"full"})
    \/ Sched({0, MaxElapsed}, TimeoutResults, {"full"})
    \/ Destroy

Spec == Init /\ [][Next]_vars

\* The filter registry: filters set, replaced and removed on three nested
\* names, incoming Interests dispatched through them.
NextFilters ==
    \/ Connect({"ok"})
    \/ SetFilter(FilterNames, UserClosures \cup {NULL})
    \/ DispatchIncomingInterest(IncomingInterests, FilterResults)
    \/ Destroy

SpecFilters == Init /\ [][NextFilters]_vars

\* Closure ownership: two application closures shared between a filter and
\* expressed Interests, released by retirement, by timeout, by the sweep, by
\* filter removal and by ccn_destroy; key-fetch closures made and released by
\* the library.
NextClosures ==
    \/ Connect({"ok"})
    \/ SetFilter({<<"a">>}, UserClosures \cup {NULL})
    \/ Express({<<"a", "b">>}, {-1}, UserClosures, {"none"}, {"full"})
    \/ DispatchContentObject({DataInlineGood, DataKeyNameNear, DataKeyNameFar}, {"OK", "VERIFY"}, {"full"})
    \/ Sched({0, MaxElapsed}, {"OK"}, {"full"})
    \/ Destroy

SpecClosures == Init /\ [][NextClosures]_vars

\* Key arrival under the event loop: the scheduler and the output flush run
\* again and again (ccn_run calls both on every iteration), content with a
\* KeyName arrives and is sent for verification, and so does the key itself.
NextKeyArrival ==
    \/ Connect({"ok"})
    \/ Express({<<"a", "b">>}, {-1}, {"c1"}, {"none"}, {"full"})
    \/ DispatchContentObject({DataKeyNameFar, KeyObject}, {"OK", "VERIFY"}, {"full"})
    \/ Sched({0, MaxElapsed}, {"REEXPRESS"}, {"full"})
    \/ Pushout({"full"})
    \/ Destroy

\* A scheduler pass taken now, the clock standing still, would leave every
\* variable as it is (or the handle is gone): this holds wherever the pass is
\* not enabled as a step that changes the state.
SchedIdle ==
    \/ ~alive
    \/ \A rs \in [Ageable -> {"REEXPRESS"}] :
          LET r == ccn_process_scheduled_operations(Handle, rs, "full", Clock(0))
          IN  \/ r.h.overflow
              \/ Backlog(r.h.outbuf) > MaxOutbuf
              \/ /\ r.h = [Handle EXCEPT !.upcalls = upcalls, !.sent = sent, !.io = io]
                 /\ lastop = Op("process_scheduled_operations", <<>>, r.ret)

\* The same for the flush of the output buffer.
PushoutIdle ==
    \/ ~alive
    \/ LET r == ccn_pushout(Handle, "full")
       IN  /\ r.h = [Handle EXCEPT !.upcalls = upcalls, !.sent = sent, !.io = io]
           /\ lastop = Op("pushout", <<>>, r.ret)

\* ccn_run runs the scheduler and the flush on every iteration of its loop:
\* both are weakly fair.  WF_vars(A) is []<>~ENABLED <<A>>_vars \/ []<><<A>>_vars,
\* written out here with SchedIdle and PushoutIdle, which hold wherever the
\* action is not enabled.
SpecKeyArrival ==
    /\ Init
    /\ [][NextKeyArrival]_vars
    /\ ([]<>SchedIdle \/ []<><<Sched({0, MaxElapsed}, {"REEXPRESS"}, {"full"})>>_vars)
    /\ ([]<>PushoutIdle \/ []<><<Pushout({"full"})>>_vars)

\* Timeouts: Interests expressed before and after the connection is made, the
\* scheduler running with the clock standing still, half a lifetime later and
\* a whole lifetime later, the socket taking the re-expressed Interest,
\* refusing it for now or failing.
NextTimeout ==
    \/ Connect({"ok"})
    \/ Express(ExprNames, {-1}, {"c1"}, {"none"}, {"full"})
    \/ DispatchContentObject({DataInlineGood}, {"OK", "REEXPRESS"}, {"full"})
    \/ Sched(Advances, TimeoutResults, WriteBehaviours)
    \/ Pushout({"full"})
    \/ Destroy

SpecTimeout == Init /\ [][NextTimeout]_vars

\* The idle scheduler: Interests expressed with and without a template that
\* parses, answered and swept, a filter set and removed, a message put by
\* the application, and the scheduler run over what is left.
NextIdle ==
    \/ Connect({"ok"})
    \/ Express(ExprNames, {-1}, {"c1"}, ExprTemplates, {"full"})
    \/ Put({Wire(InterestMsg(<<"a">>, -1, NULL), 1)}, {"full"})
    \/ SetFilter({<<"a">>}, {"c2", NULL})
    \/ DispatchContentObject({DataInlineGood}, {"OK"}, {"full"})
    \/ Sched({0, MaxElapsed}, {"OK"}, {"full"})
    \/ Destroy

SpecIdle == Init /\ [][NextIdle]_vars

\* Clock readings around the limits of ccn_age_interest: at the first send,
\* just short of a lifetime, a lifetime, 30 s, 31 s and MaxLate seconds after
\* it, each on the second and one microsecond short of the next.
AgeReadings ==
    {Timeval(T0 + s, u) : s \in {0, 3, 4, HEAL_SEC, HEAL_SEC + 1, MaxLate},
                          u \in {0, MICROSEC_PER_SEC - 1}}

\* Ageing: Interests expressed before and after the connection is made (the
\* first is sent, the second waits for its first pass), answered or not, and
\* scheduler passes at the readings above.
NextAge ==
    \/ Connect({"ok"})
    \/ Express({<<"a", "b">>}, {-1}, {"c1"}, {"none"}, {"full"})
    \/ DispatchContentObject({DataInlineGood}, {"OK"}, {"full"})
    \/ SchedAt(AgeReadings, TimeoutResults, {"full", "eagain"})
    \/ Destroy

SpecAge == Init /\ [][NextAge]_vars

\* Expressing: names that decode and one that does not, with all the
\* components or the first only, no template or one that does not parse, two
\* closures that a filter may hold as well; the records are aged and swept.
NextExpress ==
    \/ Connect({"ok"})
    \/ SetFilter({<<"a">>}, UserClosures \cup {NULL})
    \/ Express({<<"a", "b">>, <<"a", "?">>}, PrefixComps, UserClosures, ExprTemplates,
               {"full", "eagain"})
    \/ Sched({0, MaxElapsed}, {"OK"}, {"full"})
    \/ Destroy

SpecExpress == Init /\ [][NextExpress]_vars

\* Connecting: socket(2), connect(2) or fcntl(2) may fail, the application
\* connects again, disconnects, expresses an Interest, and calls ccn_run on
\* whatever the handle then holds; on a socket that is not connected poll(2)
\* times out or reports the socket and read(2) fails.
NextConnect ==
    \/ ~run.active /\ Connect(ConnectOutcomes)
    \/ ~run.active /\ Disconnect
    \/ ~run.active /\ Express({<<"a", "b">>}, {-1}, {"c1"}, {"none"}, {"full", "eagain"})
    \/ RunCall({-1, 0})
    \/ RunIteration({0, MaxElapsed}, {"OK"}, {"ready", "timeout"},
                    {ReadFails(EAGAIN), ReadFails(ENOTCONN)}, {"full"}, {"none"})

SpecConnect == Init /\ [][NextConnect]_vars

\* Delivery: an Interest in /a/b, matching ContentObjects that arrive one
\* after another, the upcall retiring the record or asking for it again, the
\* socket taking the Interest again, refusing it for now or failing, the
\* scheduler re-expressing what has timed out.
NextDeliver ==
    \/ Connect({"ok"})
    \/ Express({<<"a", "b">>}, {-1}, {"c1"}, {"none"}, {"full"})
    \/ DispatchContentObject({DataInlineGood, DataNoLocator}, {"OK", "REEXPRESS"},
                             WriteBehaviours)
    \/ Sched({0, MaxElapsed}, TimeoutResults, {"full"})
    \/ Pushout({"full"})
    \/ Destroy

SpecDeliver == Init /\ [][NextDeliver]_vars

\* The messages an application puts: an Interest in one unit, an Interest in
\* two, a ContentObject in three.
WellFormedPuts ==
    { Wire(InterestMsg(<<"a">>, -1, NULL), 1), Wire(InterestMsg(<<"a", "b">>, -1, NULL), 2),
      Wire(DataInlineGood, 3) }
\* Bytes that are not one message: none, bytes that do not decode, a message
\* cut short, two messages, a message with a byte after it, a stray closer.
MalformedPuts ==
    { <<>>, <<Garbage>>, <<Opening(DataInlineGood), Inner>>,
      Wire(InterestMsg(<<"a">>, -1, NULL), 1) \o Wire(InterestMsg(<<"a">>, -1, NULL), 1),
      Wire(InterestMsg(<<"a", "b">>, -1, NULL), 2) \o <<Inner>>, <<Closing>> }
\* What write(2) does to a connected socket that stays connected.
FramerWrites == {"full", "short", "eagain"}

\* A handle made with CCN_TAP set.
InitTap ==
    /\ Created(4)
    /\ alive = TRUE
    /\ sock = -1
    /\ outbuf = <<>>
    /\ interests_by_prefix = << >>
    /\ interests = << >>
    /\ interest_filters = << >>
    /\ keys = {}
    /\ now = Timeval(0, 0)
    /\ running = 0
    /\ refresh_us = 0
    /\ err = 0
    /\ refcount = [c \in Closures |-> 0]
    /\ upcalls = <<>>
    /\ sent = <<>>
    /\ lastop = Op("create", <<>>, 0)

\* The outgoing framer: the application puts messages, well formed or not,
\* on a tapped handle while write(2) takes all, some or none of the bytes or
\* fails, and the event loop pushes the backlog out.
NextFramer ==
    \/ Connect({"ok"})
    \/ Put(WellFormedPuts \cup MalformedPuts, FramerWrites \cup {"error", "tapfail"})
    \/ Pushout(FramerWrites)
    \/ Disconnect

SpecFramer == InitTap /\ [][NextFramer]_vars

\* The units the peer sends: a whole Interest in /a, and the opening, an
\* inner and the closing unit of a longer Interest in /a/b.
StreamUnits ==
    { InterestMsg(<<"a">>, -1, NULL), Opening(InterestMsg(<<"a", "b">>, -1, NULL)),
      Inner, Closing }
\* What one read(2) can return of the stream.
Chunks ==
    UNION { [1..n -> StreamUnits] : n \in 1..MaxRead }

\* The units of c from the k-th on continue a stream of messages that the
\* decoder has followed to state d: outside an element only an element can
\* begin, and no closer comes without its opening.
RECURSIVE ContinuesStream(_, _, _)
ContinuesStream(d, c, k) ==
    \/ k > Len(c)
    \/ /\ d.nest > 0 \/ c[k].mt \in {"open", "interest", "content"}
       /\ SkeletonStep(d, c[k]).state >= 0
       /\ ContinuesStream(SkeletonStep(d, c[k]), c, k + 1)

\* The chunks that continue a stream of well-formed messages from where the
\* input buffer stands.
WellFormedReads ==
    { ReadData(c) : c \in
        { c \in Chunks :
            ContinuesStream(IF inbuf = <<>> THEN Decoder0 ELSE decoder, c, 1) } }

\* The incoming framer: the peer's stream of messages arrives cut at any
\* unit, reads find nothing (EAGAIN) or the end of the stream, a filter on /a
\* receives what is dispatched.
NextInput ==
    \/ Connect({"ok"})
    \/ SetFilter({<<"a">>}, {"c2"})
    \/ ProcessInput(WellFormedReads \cup {ReadFails(EAGAIN), ReadEOF}, {"OK"})

SpecInput == Init /\ [][NextInput]_vars

\* The event loop: the application connects, expresses an Interest in /a/b
\* when it has none, and calls ccn_run with no timeout, a zero timeout or one second; inside
\* the loop a matching ContentObject arrives, the read finds nothing, the end
\* of the stream or a socket that is not connected, and poll(2) times out,
\* finds the socket ready or is interrupted by a signal; the upcalls stop the
\* loop or call ccn_run themselves.
NextRun ==
    \/ ~run.active /\ Connect({"ok"})
    \/ ~run.active /\ DOMAIN interests = {}
          /\ Express({<<"a", "b">>}, {-1}, {"c1"}, {"none"}, {"full"})
    \/ RunCall({-1, 0, 1000})
    \/ RunIteration({0, MaxElapsed}, {"OK"}, {"ready", "timeout", "eintr"},
                    {ReadData(<<DataInlineGood>>), ReadEOF, ReadFails(EAGAIN),
                     ReadFails(ENOTCONN)},
                    {"full"}, {"none", "stop", "run"})

SpecRun == Init /\ [][NextRun]_vars

\* What one iteration of the loop inside ccn_get meets, d seconds on.
GetPass(pl, rd, d) ==
    [rs |-> [id \in 1..MaxInterests |-> "OK"], fs |-> [i \in 0..3 |-> "OK"],
     wr |-> "full", clk |-> Clock(d), pl |-> pl, rd |-> rd]

\* A ccn_get for /a/b with one second to wait: the template parses or not,
\* the handle made for it connects or not, the content comes at once or not
\* at all, and freed memory reads as a table with or without the key.
GetInputs ==
    { [name |-> <<"a", "b">>, templ |-> t, timeout_ms |-> 1000, connect |-> c,
       clk |-> Clock(0), passes |-> p, dangling |-> d] :
         t \in {"none", "bad"}, c \in {"ok", "connect_fails"},
         p \in { << GetPass("ready", ReadData(<<DataInlineGood>>), 0) >>,
                 << GetPass("timeout", ReadFails(EAGAIN), 0),
                    GetPass("timeout", ReadFails(EAGAIN), 2) >> },
         d \in SUBSET {"d1"} }

\* ccn_get: the application asks for /a/b, by ccn_express_interest and by
\* ccn_get, and calls ccn_get again from the upcall that brings the content.
NextGet ==
    \/ Connect({"ok"})
    \/ Express({<<"a", "b">>}, {-1}, {"c1"}, {"none"}, {"full"})
    \/ Get(GetInputs)
    \/ DispatchWithGet({DataInlineGood, DataNoLocator}, GetInputs)
    \/ Sched({0, MaxElapsed}, {"OK"}, {"full"})
    \/ Destroy

SpecGet == Init /\ [][NextGet]_vars

\* What the peer can send: an Interest in /a, an element that is framed as
\* a message and parses neither as an Interest nor as a ContentObject, and
\* a closer with no element open, which no decoder takes.
PeerMessages ==
    { << InterestMsg(<<"a">>, -1, NULL) >>, Wire(Garbage, 2), << Closing >> }

\* What one read(2) returns of it: one message or two.
PeerReads ==
    { ReadData(p) : p \in PeerMessages \cup { p \o q : p, q \in PeerMessages } }

\* The peer's stream with messages that are no messages in it, read by a
\* handle with a filter on /a and an Interest in /a/b.
NextPeer ==
    \/ Connect({"ok"})
    \/ SetFilter({<<"a">>}, {"c2"})
    \/ Express({<<"a", "b">>}, {-1}, {"c1"}, {"none"}, {"full"})
    \/ ProcessInput(PeerReads \cup {ReadFails(EAGAIN)}, {"OK"})

SpecPeer == Init /\ [][NextPeer]_vars

(* ------------------------------ properties ---------------------------- *)
\* The upcalls of the last operation that were made for record id.
UpcallsFor(id) == {k \in 1..Len(upcalls) : upcalls[k].id = id}

\* The last operation handed interest_msg m to ccn_put.
WasSent(m) == \E k \in 1..Len(sent) : sent[k].p = m

\* C1: every Interest record in the registry satisfies
\* 0 <= outstanding <= target <= 1, whatever sequence of express_interest,
\* dispatch_message, process_scheduled_operations and key fetches led here.
C1_OutstandingWithinTarget ==
    \A id \in DOMAIN interests :
        /\ 0 <= interests[id].outstanding
        /\ interests[id].outstanding <= interests[id].target
        /\ interests[id].target <= 1

\* A dispatch in which a record consumed its outstanding count and, the upcall
\* having returned REEXPRESS, was transmitted again.
C1_Witness ==
    /\ lastop.op = "dispatch_message"
    /\ \E id \in DOMAIN interests :
          /\ interests[id].outstanding = 1
          /\ interests[id].target = 1
          /\ \E k \in UpcallsFor(id) : upcalls[k].res = "REEXPRESS"

\* C2: a record whose wanted_pub is set has target 0, and a record that was
\* waiting for a key has target 1 after a step only if that step is a
\* scheduler pass that found the wanted key in the cache and cleared wanted_pub.
C2_ParkedHasNoTarget ==
    /\ [](\A id \in DOMAIN interests :
            interests[id].wanted_pub # NULL => interests[id].target = 0)
    /\ [][\A id \in DOMAIN interests \cap DOMAIN interests' :
            (interests[id].wanted_pub # NULL /\ interests'[id].target = 1)
            => /\ interests'[id].wanted_pub = NULL
               /\ lastop'.op = "process_scheduled_operations"
               /\ interests[id].wanted_pub \in keys]_vars

\* A scheduler pass that found the key of a parked record: wanted_pub is
\* cleared, target is back to 1 and the Interest was handed to ccn_put, with
\* no timeout upcall for the record in that pass.
C2_Witness ==
    /\ lastop.op = "process_scheduled_operations"
    /\ \E id \in DOMAIN interests :
          /\ interests[id].action \in UserClosures
          /\ interests[id].wanted_pub = NULL
          /\ interests[id].target = 1
          /\ interests[id].outstanding = 1
          /\ WasSent(interests[id].interest_msg)
          /\ UpcallsFor(id) = {}
          /\ "d1" \in keys

\* A record awaiting deletion: action released, target 0, no key wait.
AwaitingDeletion(id) ==
    /\ interests[id].action = NULL
    /\ interests[id].target = 0
    /\ interests[id].wanted_pub = NULL

\* C3: between operations a record has no interest_msg exactly when it is
\* awaiting deletion, and a parked record still has its interest_msg.
C3_MsgNullIffAwaitingDeletion ==
    \A id \in DOMAIN interests :
        /\ (interests[id].interest_msg = <<>>) <=> AwaitingDeletion(id)
        /\ interests[id].wanted_pub # NULL => interests[id].interest_msg # <<>>

\* A retired record and a parked record side by side after a dispatch.
C3_Witness ==
    /\ lastop.op = "dispatch_message"
    /\ \E id \in DOMAIN interests :
          /\ interests[id].interest_msg = <<>>
          /\ \E k \in UpcallsFor(id) : upcalls[k].res = "OK"
    /\ \E id \in DOMAIN interests :
          /\ interests[id].wanted_pub # NULL
          /\ interests[id].interest_msg # <<>>

\* C4: the filter registry holds no entry whose action is null, and after a
\* set_interest_filter call with a null action there is no entry for the
\* name of the call, whether or not the name was registered before.
C4_NoNullFilter ==
    /\ \A n \in DOMAIN interest_filters : interest_filters[n] # NULL
    /\ (lastop.op = "set_interest_filter" /\ lastop.arg.action = NULL)
       => lastop.arg.name \notin DOMAIN interest_filters

\* A registered filter removed by a null action (HT_OLD_ENTRY returned) while
\* another name keeps its filter.
C4_Witness ==
    /\ lastop.op = "set_interest_filter"
    /\ lastop.arg.action = NULL
    /\ lastop.ret = 0
    /\ interest_filters # << >>

\* How many registry slots point at closure c.
RefsNow(c) ==
    Cardinality({id \in DOMAIN interests : interests[id].action = c})
    + Cardinality({n \in DOMAIN interest_filters : interest_filters[n] = c})

\* The FINAL upcalls closure c received in the last operation.
Finals(c) ==
    {k \in 1..Len(upcalls) : upcalls[k].kind = "FINAL" /\ upcalls[k].clo = c}

\* C5: a closure gets FINAL exactly once in the step that releases its last
\* reference, only at a moment when no record or filter points at it, and
\* never in a step that starts with the application's closure unreferenced
\* (releasing a slot that was already released fires nothing); the refcount
\* field counts the slots that point at the closure.
C5_FinalExactlyOnce ==
    /\ [](\A c \in Closures : refcount[c] = RefsNow(c))
    /\ [][\A c \in Closures :
            /\ \A k \in Finals(c)' : upcalls'[k].refs = 0
            /\ Cardinality(Finals(c)') <= 1
            /\ (RefsNow(c) > 0 /\ RefsNow(c)' = 0) => Cardinality(Finals(c)') = 1
            /\ RefsNow(c)' > 0 => Finals(c)' = {}
            /\ (RefsNow(c) = 0 /\ c \in UserClosures) => Finals(c)' = {}]_vars

\* One dispatch that retired two records sharing a closure: the first
\* content upcall saw two references, the second one, and FINAL came once,
\* after both.
C5_Witness ==
    /\ lastop.op = "dispatch_message"
    /\ Len(upcalls) = 3
    /\ upcalls[1].kind = "CONTENT" /\ upcalls[1].refs = 2
    /\ upcalls[2].kind = "CONTENT" /\ upcalls[2].refs = 1
    /\ upcalls[3].kind = "FINAL" /\ upcalls[3].refs = 0
    /\ upcalls[1].clo = upcalls[3].clo /\ upcalls[2].clo = upcalls[3].clo

\* The prefix lengths of the incoming Interest im that have a filter.
FilteredDepths(im) ==
    {i \in 0..Len(im.name) : Prefix(im.name, i) \in DOMAIN interest_filters}

\* C6: a dispatched Interest makes one upcall for every prefix of its name
\* that has a filter, deepest prefix first; an upcall has kind INTEREST when
\* no earlier upcall for the message returned INTEREST_CONSUMED and kind
\* CONSUMED_INTEREST otherwise.
C6_FiltersDeepestFirst ==
    (lastop.op = "dispatch_message" /\ lastop.arg.mt = "interest") =>
        /\ {upcalls[k].matched : k \in 1..Len(upcalls)} = FilteredDepths(lastop.arg)
        /\ \A j, k \in 1..Len(upcalls) :
              j < k => upcalls[j].matched > upcalls[k].matched
        /\ \A k \in 1..Len(upcalls) :
              /\ upcalls[k].clo = interest_filters[Prefix(lastop.arg.name, upcalls[k].matched)]
              /\ upcalls[k].msg = lastop.arg
              /\ upcalls[k].kind =
                     IF \E j \in 1..(k - 1) : upcalls[j].res = "INTEREST_CONSUMED"
                     THEN "CONSUMED_INTEREST" ELSE "INTEREST"

\* Three nested filters: the deepest consumes the Interest, the middle one
\* returns OK, and the shallowest is still told CONSUMED_INTEREST.
C6_Witness ==
    /\ lastop.op = "dispatch_message"
    /\ Len(upcalls) = 3
    /\ upcalls[1].kind = "INTEREST" /\ upcalls[1].res = "INTEREST_CONSUMED"
    /\ upcalls[1].matched = 3
    /\ upcalls[2].kind = "CONSUMED_INTEREST" /\ upcalls[2].res = "OK"
    /\ upcalls[2].matched = 2
    /\ upcalls[3].kind = "CONSUMED_INTEREST" /\ upcalls[3].matched = 1

\* The content upcalls of the last operation, by position in the log.
ContentEvents == {k \in 1..Len(upcalls) : upcalls[k].kind \in ContentKinds}

\* The records a ContentObject can be delivered to: outstanding and matching.
Matching(co) ==
    {id \in DOMAIN interests :
        /\ interests[id].target > 0
        /\ interests[id].outstanding > 0
        /\ interests[id].interest_msg # <<>>
        /\ ccn_content_matches_interest(co, interests[id].interest_msg[1])}

\* The prefix under which record id is registered.
BucketOf(id) ==
    CHOOSE key \in DOMAIN interests_by_prefix :
        \E j \in 1..Len(interests_by_prefix[key]) : interests_by_prefix[key][j] = id

\* C7: when the records a dispatched ContentObject matches are registered
\* under N different prefixes of its name, the dispatch makes exactly N content
\* upcalls, one for each of those records, the longest prefix first.
C7_OneUpcallPerPrefix ==
    [][(lastop'.op = "dispatch_message" /\ lastop'.arg.mt = "content") =>
        ((\A x, y \in Matching(lastop'.arg) : x # y => BucketOf(x) # BucketOf(y))
         => /\ Cardinality(ContentEvents') = Cardinality(Matching(lastop'.arg))
            /\ {upcalls'[k].id : k \in ContentEvents'} = Matching(lastop'.arg)
            /\ \A j, k \in ContentEvents' :
                  j < k => upcalls'[j].matched > upcalls'[k].matched)]_vars

\* The kind the dispatcher owes a ContentObject when the key cache holds K:
\* a KEY-type object brings its own key, a cached key or an inline key is
\* located, and nothing else is.
ExpectedKind(co, K) ==
    IF co.pub \in K \cup (IF co.type = "KEY" THEN {co.cdig} ELSE {})
    THEN IF co.signer = co.pub THEN "CONTENT" ELSE "CONTENT_BAD"
    ELSE IF co.loc = "KEY"
    THEN IF co.signer = co.kdig THEN "CONTENT" ELSE "CONTENT_BAD"
    ELSE "CONTENT_UNVERIFIED"

\* C8: every content upcall of a dispatch has kind CONTENT when a key is
\* located (in the cache or inline) and the signature verifies, CONTENT_BAD
\* when a key is located and the signature does not verify, and
\* CONTENT_UNVERIFIED when there is no key (KeyName, Certificate, no locator).
C8_UpcallKind ==
    [][(lastop'.op = "dispatch_message" /\ lastop'.arg.mt = "content") =>
        \A k \in ContentEvents' :
            upcalls'[k].kind = ExpectedKind(lastop'.arg, keys)]_vars

\* A ContentObject whose KeyLocator is a KeyName, delivered as CONTENT because
\* its publisher's key was in the cache.
C8_Witness ==
    /\ lastop.op = "dispatch_message"
    /\ lastop.arg = DataKeyNameFar
    /\ \E k \in ContentEvents : upcalls[k].kind = "CONTENT"

\* C9: after a content upcall the record was transmitted again when the
\* result is REEXPRESS, is parked when the result is VERIFY and the kind
\* CONTENT_UNVERIFIED, and is retired in every other case: target 0,
\* interest_msg null, action released.
C9_AfterContentUpcall ==
    \A k \in ContentEvents :
        LET e == upcalls[k]
            rec == interests[e.id]
        IN  IF e.res = "REEXPRESS"
            THEN /\ rec.target = 1 /\ rec.outstanding = 1
                 /\ rec.action = e.clo
                 /\ WasSent(rec.interest_msg)
            ELSE IF e.res = "VERIFY" /\ e.kind = "CONTENT_UNVERIFIED"
            THEN /\ rec.wanted_pub # NULL /\ rec.target = 0
                 /\ rec.action = e.clo
                 /\ rec.interest_msg # <<>>
            ELSE /\ rec.target = 0
                 /\ rec.interest_msg = <<>>
                 /\ rec.action = NULL

\* A verified ContentObject whose upcall answered VERIFY: the record is retired.
C9_Witness ==
    /\ lastop.op = "dispatch_message"
    /\ \E k \in ContentEvents :
          /\ upcalls[k].kind = "CONTENT"
          /\ upcalls[k].res = "VERIFY"
          /\ upcalls[k].clo \in UserClosures
          /\ interests[upcalls[k].id].interest_msg = <<>>
          /\ interests[upcalls[k].id].action = NULL

\* The Interest a key fetch for ContentObject co puts on the wire.
KeyFetchMsg(co) ==
    << InterestMsg(co.kname, -1, IF co.kpub # NULL THEN co.kpub ELSE NULL) >>

\* The records made by a key fetch: those holding their key closure, and
\* those whose key closure got FINAL in the last operation.
KeyFetchRecords ==
    {id \in DOMAIN interests :
        \/ interests[id].action = KeyClosure(id)
        \/ \E k \in 1..Len(upcalls) :
              upcalls[k].kind = "FINAL" /\ upcalls[k].clo = KeyClosure(id)}

\* The last operation expressed a key-fetch sub-Interest for co.
KeyFetchIssued(co) == WasSent(KeyFetchMsg(co)) /\ KeyFetchRecords # {}

\* The content upcalls of kind CONTENT_UNVERIFIED that answered VERIFY.
VerifyEvents ==
    {k \in ContentEvents :
        upcalls[k].kind = "CONTENT_UNVERIFIED" /\ upcalls[k].res = "VERIFY"}

\* Record id is parked for the publisher of co.
ParkedFor(id, co) ==
    /\ interests[id].wanted_pub = co.pub
    /\ interests[id].target = 0

\* C10 as stated: whenever a CONTENT_UNVERIFIED upcall answers VERIFY, a
\* key-fetch sub-Interest is expressed and the triggering record is parked with
\* wanted_pub the publisher digest and target 0.
C10_KeyFetchAlwaysIssued ==
    \A k \in VerifyEvents :
        /\ ParkedFor(upcalls[k].id, upcalls[k].msg)
        /\ KeyFetchIssued(upcalls[k].msg)

\* C10: whenever a CONTENT_UNVERIFIED upcall answers VERIFY, the triggering
\* record is parked with wanted_pub the publisher digest and target 0, and a
\* key-fetch sub-Interest is expressed exactly when the KeyLocator of the
\* ContentObject carries a KeyName; without one the record is parked and
\* nothing is asked.
C10_KeyFetchIffKeyName ==
    \A k \in VerifyEvents :
        /\ ParkedFor(upcalls[k].id, upcalls[k].msg)
        /\ KeyFetchIssued(upcalls[k].msg) <=> (upcalls[k].msg.loc = "KEYNAME")

\* A ContentObject without a KeyLocator answered with VERIFY: the record is
\* parked and the dispatch put nothing on the wire.
C10_Witness ==
    /\ lastop.op = "dispatch_message"
    /\ lastop.arg = DataNoLocator
    /\ sent = <<>>
    /\ \E k \in VerifyEvents : ParkedFor(upcalls[k].id, lastop.arg)

\* Record id waits for a key that the cache now holds, on a connected handle.
KeyArrived(id) ==
    /\ alive
    /\ sock # -1
    /\ id \in DOMAIN interests
    /\ interests[id].wanted_pub # NULL
    /\ interests[id].wanted_pub \in keys

\* Record id has just been un-parked by a scheduler pass and sent again.
Unparked(id) ==
    /\ lastop.op = "process_scheduled_operations"
    /\ id \in DOMAIN interests
    /\ interests[id].wanted_pub = NULL
    /\ interests[id].target = 1
    /\ interests[id].outstanding = 1
    /\ WasSent(interests[id].interest_msg)

\* C11: a record parked for digest D whose key is in the cache is eventually
\* un-parked by the scheduler (wanted_pub cleared, target 1, the Interest sent
\* again) unless the handle is destroyed first; and a record that is
\* outstanding gets a ContentObject it matches as CONTENT when the publisher's
\* key is cached and the signature verifies.
C11_UnparkedOnKeyArrival ==
    /\ \A id \in 1..MaxInterests : KeyArrived(id) ~> (Unparked(id) \/ ~alive)
    /\ [][(/\ lastop'.op = "dispatch_message"
           /\ lastop'.arg.mt = "content"
           /\ lastop'.arg.pub \in keys
           /\ lastop'.arg.signer = lastop'.arg.pub)
          => \A id \in Matching(lastop'.arg) :
                \E k \in UpcallsFor(id)' : upcalls'[k].kind = "CONTENT"]_vars

\* The scheduler pass that un-parks the record expressed on /a/b once the
\* key d1 it was waiting for has been cached.
C11_Witness ==
    /\ "d1" \in keys
    /\ \E id \in DOMAIN interests :
          /\ Unparked(id)
          /\ interests[id].action = "c1"
          /\ upcalls = <<>>

\* Microseconds from the last send of record id to the clock reading t.
SinceLastSend(id, t) ==
    (t.tv_sec - interests[id].lasttime.tv_sec) * MICROSEC_PER_SEC
    + (t.tv_usec - interests[id].lasttime.tv_usec)

\* Record id is wanted, was sent, and its last send is a lifetime or more
\* before the clock reading t.
Due(id, t) ==
    /\ interests[id].target > 0
    /\ interests[id].action # NULL
    /\ interests[id].lasttime.tv_sec # 0
    /\ SinceLastSend(id, t) >= CCN_INTEREST_LIFETIME_MICROSEC

\* The scheduler pass just taken made the timeout upcall of record id and,
\* when the upcall answered REEXPRESS, handed the Interest to ccn_put again.
TimedOut(id) ==
    \E k \in UpcallsFor(id)' :
        /\ upcalls'[k].kind = "INTEREST_TIMED_OUT"
        /\ upcalls'[k].res = "REEXPRESS" =>
              /\ id \in DOMAIN interests'
              /\ WasSent(interests[id].interest_msg)'

\* The ccn_put of record id's Interest in the pass just taken was accepted.
PutAccepted(id) ==
    \E k \in 1..Len(sent') :
        sent'[k].p = interests[id].interest_msg /\ sent'[k].ret >= 0

Transmitted(id) ==
    \/ id \notin DOMAIN interests
    \/ \E k \in UpcallsFor(id)' : upcalls'[k].res = "REEXPRESS"
    \/ interests[id].wanted_pub # NULL /\ interests'[id].wanted_pub = NULL

\* C13: from its creation on, the interest_msg of a record stays what it is
\* until retirement makes it null (and null it stays); every transmission of
\* a record hands exactly those bytes to ccn_put, and ccn_put is handed
\* nothing but the bytes of a record or of the key fetch being made.
C13_InterestMsgFixed ==
    [][/\ \A id \in DOMAIN interests \cap DOMAIN interests' :
             lastop'.op # "destroy" =>
                 interests'[id].interest_msg \in {interests[id].interest_msg, <<>>}
       /\ \A id \in DOMAIN interests' :
             (Transmitted(id) /\ interests'[id].outstanding = 1) =>
                 /\ \E k \in 1..Len(sent') : sent'[k].p = interests'[id].interest_msg
                 /\ id \in DOMAIN interests =>
                        interests'[id].interest_msg = interests[id].interest_msg
       /\ \A k \in 1..Len(sent') :
             \/ \E id \in DOMAIN interests : sent'[k].p = interests[id].interest_msg
             \/ \E id \in DOMAIN interests' : sent'[k].p = interests'[id].interest_msg
             \/ /\ lastop'.op = "dispatch_message"
                /\ sent'[k].p = KeyFetchMsg(lastop'.arg)]_vars

\* A record sent for the third time at least: it was expressed, re-expressed
\* after a timeout, and is now re-expressed after content, with the bytes it
\* was created with.
C13_Witness ==
    /\ lastop.op = "dispatch_message"
    /\ now.tv_sec > T0
    /\ \E id \in DOMAIN interests :
          /\ \E k \in UpcallsFor(id) :
                upcalls[k].kind \in ContentKinds /\ upcalls[k].res = "REEXPRESS"
          /\ interests[id].lasttime.tv_sec > T0
          /\ interests[id].interest_msg = << InterestMsg(<<"a", "b">>, -1, NULL) >>
          /\ sent = << [p |-> interests[id].interest_msg, ret |-> 0] >>

\* What a scheduler pass over handle h gives when no upcall is there to answer.
IdlePass(h, clk) == ccn_process_scheduled_operations(h, << >>, "full", clk)

\* A second scheduler pass right after the pass r returns what r returned and
\* leaves the registries and the key cache as r left them.
Repeatable(r) ==
    LET r2 == IdlePass([r.h EXCEPT !.upcalls = <<>>, !.sent = <<>>],
                       Timeval(r.h.now.tv_sec + 1, 0))
    IN  /\ r2.ret = r.ret
        /\ r2.h.upcalls = <<>>
        /\ r2.h.sent = <<>>
        /\ r2.h.interests_by_prefix = r.h.interests_by_prefix
        /\ r2.h.interests = r.h.interests
        /\ r2.h.interest_filters = r.h.interest_filters
        /\ r2.h.keys = r.h.keys

\* C20 as stated: a scheduler pass over a handle with no Interest records
\* returns 5 x LIFETIME, makes no upcall, sends nothing and leaves the
\* interest registry, the filter registry and the key cache as they were.
C20_IdlePassChangesNothing ==
    [][(lastop'.op = "process_scheduled_operations" /\ DOMAIN interests = {}) =>
        /\ lastop'.ret = 5 * CCN_INTEREST_LIFETIME_MICROSEC
        /\ upcalls' = <<>>
        /\ sent' = <<>>
        /\ interests_by_prefix' = interests_by_prefix
        /\ interest_filters' = interest_filters
        /\ keys' = keys]_vars

\* C20: a scheduler pass over a handle with no Interest records returns
\* 5 x LIFETIME, makes no upcall, sends nothing, leaves the filter registry
\* and the key cache as they were and the interest registry without records;
\* the empty buckets of the interest registry are kept when the pass is cut
\* short by pending output and deleted when it is not.  A pass repeated on
\* the handle it leaves gives the same.
C20_IdlePassKeepsRecordsOut ==
    /\ []((alive /\ DOMAIN interests = {}) => Repeatable(IdlePass(Handle, Clock(0))))
    /\ [][(lastop'.op = "process_scheduled_operations" /\ DOMAIN interests = {}) =>
            /\ lastop'.ret = 5 * CCN_INTEREST_LIFETIME_MICROSEC
            /\ upcalls' = <<>>
            /\ sent' = <<>>
            /\ DOMAIN interests' = {}
            /\ interests_by_prefix' =
                  IF outbuf # <<>> THEN interests_by_prefix ELSE << >>
            /\ interest_filters' = interest_filters
            /\ keys' = keys]_vars

\* A pass over a handle whose one Interest was answered and swept: no record
\* and no bucket is left, the filter and the cached key are still there.
C20_Witness ==
    /\ lastop = Op("process_scheduled_operations", <<>>, 5 * CCN_INTEREST_LIFETIME_MICROSEC)
    /\ DOMAIN interests = {}
    /\ interests_by_prefix = << >>
    /\ DOMAIN interest_filters = {<<"a">>}
    /\ keys = {"d1"}
    /\ now.tv_sec = T0 + MaxElapsed

(* ------------------------------- C14, C15 ----------------------------- *)
\* The message the step's ccn_put accepted (its return value was not -1).
AcceptedNow ==
    IF lastop'.op = "put" /\ lastop'.ret >= 0 THEN lastop'.arg.p ELSE <<>>

\* C14: while the handle stays connected the bytes the socket accepts are the
\* messages ccn_put accepted, in call order, nothing lost, doubled or moved,
\* whether write(2) takes all, some or none of the bytes: in every step of
\* the framer the bytes the socket took followed by the bytes left in the
\* output buffer are the bytes that were waiting followed by the message
\* accepted in that step, so a short write leaves exactly the unwritten rest
\* and a new message goes behind the backlog.
C14_StreamIsPutsInOrder ==
    [][(/\ lastop'.op \in {"put", "pushout", "connect"}
        /\ lastop'.op = "put" => lastop'.arg.wr \in FramerWrites)
       => /\ io'.written \o outbuf' = outbuf \o AcceptedNow
          /\ sock = -1 => io'.written = <<>>]_vars

\* A put behind a backlog on a connected socket: a short write took the head
\* of the backlog, the rest of it is still in front of the new message.
C14_Witness ==
    /\ lastop.op = "put" /\ lastop.ret = 1 /\ lastop.arg.wr = "short"
    /\ sock # -1
    /\ io.written # <<>>
    /\ Len(outbuf) > Len(lastop.arg.p)
    /\ SubSeq(outbuf, Len(outbuf) - Len(lastop.arg.p) + 1, Len(outbuf)) = lastop.arg.p

\* C15: ccn_put returns 0 when the whole message has been written, 1 when
\* some or all of it is buffered, -1 on error; bytes that are not exactly one
\* complete message are refused with -1 and EINVAL and reach neither the
\* socket nor the tap nor the output buffer.
C15_PutReturnValue ==
    [][lastop'.op = "put"
       => /\ lastop'.ret \in {0, 1, -1}
          /\ lastop'.ret = 0 =>
                /\ outbuf' = <<>>
                /\ io'.written = outbuf \o lastop'.arg.p
          /\ lastop'.ret = 1 =>
                /\ outbuf' # <<>>
                /\ io'.written \o outbuf' = outbuf \o lastop'.arg.p
          /\ lastop'.ret = -1 => err' # 0
          /\ (lastop'.arg.p \in WellFormedPuts /\ lastop'.arg.wr # "error")
                => lastop'.ret \in {0, 1}
          /\ lastop'.arg.p \in MalformedPuts =>
                /\ lastop'.ret = -1
                /\ err' = EINVAL
                /\ io'.written = <<>>
                /\ io'.tapped = <<>>
                /\ outbuf' = outbuf
                /\ tap' = tap]_vars

\* Bytes that hold two messages were refused on a connected handle whose
\* tap is open.
C15_Witness ==
    /\ lastop.op = "put" /\ lastop.ret = -1
    /\ Len(lastop.arg.p) = 2 /\ lastop.arg.p[1].mt = "interest"
    /\ sock # -1 /\ tap # -1
    /\ err = EINVAL

(* --------------------------------- C16 -------------------------------- *)
\* How many of the first k units of p open an element, and how many close one.
Opens(p, k) == Cardinality({j \in 1..k : p[j].mt = "open"})
Closes(p, k) == Cardinality({j \in 1..k : p[j].mt = "close"})

\* p is exactly one complete top-level message: one whole element, or an
\* opening unit matched by the closing unit at the very end.
IsMessage(p) ==
    /\ Len(p) > 0
    /\ IF Len(p) = 1 THEN p[1].mt \in {"interest", "content"}
       ELSE /\ p[1].mt = "open"
            /\ Opens(p, Len(p)) = Closes(p, Len(p))
            /\ \A k \in 1..(Len(p) - 1) : Opens(p, k) > Closes(p, k)

RECURSIVE Flatten(_)
Flatten(ss) == IF ss = <<>> THEN <<>> ELSE Head(ss) \o Flatten(Tail(ss))

\* The slices ccn_process_input handed to ccn_dispatch_message that hold bytes.
Dispatched(log) == SelectSeq(log.dispatched, LAMBDA p : p # <<>>)

\* C16: however the incoming stream is cut into reads, every complete message
\* is handed to ccn_dispatch_message exactly once, with exactly its own
\* bytes, in arrival order: in every read the bytes held back before it
\* followed by the bytes read are the slices dispatched, in order, followed
\* by the bytes held back after it; each slice is one complete message, no
\* complete message stays behind, and the filter on /a sees the parsed
\* messages in that order.
C16_EachMessageDispatchedOnce ==
    [][(lastop'.op = "process_input" /\ lastop'.ret = 0)
       => /\ inbuf \o lastop'.arg.bytes = Flatten(Dispatched(io')) \o inbuf'
          /\ \A k \in 1..Len(Dispatched(io')) : IsMessage(Dispatched(io')[k])
          /\ \A k \in 1..Len(inbuf') : ~IsMessage(SubSeq(inbuf', 1, k))
          /\ <<"a">> \in DOMAIN interest_filters
                => [k \in 1..Len(upcalls') |-> upcalls'[k].msg]
                   = [k \in 1..Len(Dispatched(io')) |-> Parse(Dispatched(io')[k])]]_vars

\* One read finished a message begun in an earlier read, brought a second
\* whole message, and ended inside a third.
C16_Witness ==
    /\ lastop.op = "process_input" /\ lastop.ret = 0
    /\ Len(Dispatched(io)) = 2
    /\ Len(Flatten(Dispatched(io))) + Len(inbuf) > Len(lastop.arg.bytes)
    /\ Len(Dispatched(io)[1]) > 1
    /\ inbuf # <<>>
    /\ Len(upcalls) = 2

(* ----------------------------- C17, C18, C19 -------------------------- *)
\* The step is an iteration of ccn_run in which read(2) found the end of the
\* stream: the socket was open, poll reported it ready.
EndOfStreamStep ==
    /\ lastop'.op = "run"
    /\ run.active /\ sock # -1
    /\ io'.polls # <<>>
    /\ lastop'.arg.poll = "ready"
    /\ lastop'.arg.rd = ReadEOF

\* C17: when read(2) reports the end of the stream inside the event loop the
\* socket is closed by exactly one ccn_disconnect in that iteration, the
\* socket becomes -1, and the loop stops with an error: ccn_run does not
\* return 0 from that iteration, and returns -1 from the next.
C17_EndOfStreamStopsLoop ==
    [][/\ EndOfStreamStep
          => /\ io'.closed = <<sock>>
             /\ sock' = -1
             /\ run'.active \/ lastop'.ret # 0
       /\ (lastop'.op = "run" /\ run.active /\ sock = -1)
          => ~run'.active /\ lastop'.ret = -1]_vars

\* What does hold at the end of the stream: one close, the socket closed,
\* and ccn_run returning 0 exactly when the run timeout is 0 by then.
C17_EndOfStreamClosesOnce ==
    [][/\ EndOfStreamStep
          => /\ io'.closed = <<sock>>
             /\ sock' = -1
             /\ run'.active = (timeout' # 0)
             /\ ~run'.active => lastop'.ret = 0
       /\ (lastop'.op = "run" /\ run.active /\ sock = -1)
          => ~run'.active /\ lastop'.ret = -1]_vars

\* C18: ccn_run called while the dispatcher or the scheduler is on the stack
\* (h->running > 0, which is so in every upcall they make) returns -1 with
\* EBUSY and changes nothing else of the handle: not the run timeout, not
\* the registries, not the buffers.
C18_ReentrantRunIsBusy ==
    \A k \in 1..Len(io.reruns) :
       /\ io.reruns[k].running > 0
       /\ io.reruns[k].ret = -1
       /\ io.reruns[k].err = EBUSY
       /\ io.reruns[k].unchanged

\* An iteration in which the dispatcher's content upcall and the FINAL
\* upcall that followed it both called ccn_run, and the loop went on.
C18_Witness ==
    /\ lastop.op = "run" /\ lastop.arg.cb = "run"
    /\ Len(io.reruns) = 2
    /\ Len(upcalls) = 2
    /\ upcalls[1].kind \in ContentKinds
    /\ upcalls[2].kind = "FINAL"
    /\ err = EBUSY
    /\ timeout = -1
    /\ run.active

\* The step is an iteration of ccn_run in which an upcall of the application
\* called ccn_set_run_timeout(h, 0).
StoppedByUpcall ==
    /\ lastop'.op = "run" /\ lastop'.arg.cb = "stop"
    /\ \E k \in 1..Len(upcalls') : upcalls'[k].clo \in UserClosures

\* C19: when an upcall made inside ccn_run calls ccn_set_run_timeout(h, 0),
\* ccn_run returns 0 no later than the end of that iteration and does not
\* block in poll again: a poll made after the upcall has a zero timeout.
C19_StopReturnsZero ==
    [][StoppedByUpcall
       => /\ ~run'.active
          /\ lastop'.ret = 0
          /\ \A k \in 1..Len(io'.polls) :
                io'.polls[k].after > 0 => io'.polls[k].ms = 0]_vars

\* What does hold: ccn_run returns from that iteration without blocking, with
\* 0 unless poll was interrupted after the upcall.
C19_StopReturns ==
    [][StoppedByUpcall
       => /\ ~run'.active
          /\ lastop'.ret = IF lastop'.arg.poll = "eintr" /\ io'.polls # <<>> THEN -1 ELSE 0
          /\ \A k \in 1..Len(io'.polls) :
                io'.polls[k].after > 0 => io'.polls[k].ms = 0]_vars

(* --------------------------------- C21 -------------------------------- *)
\* C21: a scheduler pass entered with output pending returns 5 x LIFETIME and
\* leaves every Interest record, every bucket and the re-entrance counter as
\* they were: nothing is aged, no key arrival is looked for, no upcall is
\* made, nothing is sent and nothing is swept.
C21_PendingOutputSkipsPass ==
    [][(lastop'.op = "process_scheduled_operations" /\ outbuf # <<>>) =>
        /\ lastop'.ret = 5 * CCN_INTEREST_LIFETIME_MICROSEC
        /\ interests' = interests
        /\ interests_by_prefix' = interests_by_prefix
        /\ refcount' = refcount
        /\ upcalls' = <<>>
        /\ sent' = <<>>
        /\ outbuf' = outbuf
        /\ running' = running]_vars

\* A pass entered with output pending a whole lifetime after an Interest was
\* expressed: the record is due and is left as it was.
C21_Witness ==
    /\ lastop = Op("process_scheduled_operations", <<>>, 5 * CCN_INTEREST_LIFETIME_MICROSEC)
    /\ outbuf # <<>>
    /\ now.tv_sec = T0 + MaxElapsed
    /\ \E id \in DOMAIN interests :
          /\ interests[id].target > 0
          /\ interests[id].lasttime.tv_sec = T0
          /\ interests[id].outstanding = 1

(* --------------------------------- C22 -------------------------------- *)
\* C22: ccn_destroy, from whatever state, leaves no Interest record, no
\* bucket and no filter entry; afterwards no closure is referenced, every
\* closure the handle referenced has received FINAL exactly once in the
\* teardown and no other closure has received anything.
C22_DestroyReleasesAll ==
    [][lastop'.op = "destroy" =>
        /\ DOMAIN interests' = {}
        /\ interests_by_prefix' = << >>
        /\ interest_filters' = << >>
        /\ \A c \in Closures :
              /\ refcount'[c] = 0
              /\ Cardinality(Finals(c)') = IF RefsNow(c) > 0 THEN 1 ELSE 0
        /\ \A k \in 1..Len(upcalls') : upcalls'[k].kind = "FINAL"]_vars

\* A teardown of a handle that held a filter, a parked Interest and the key
\* fetch made for it: the three closures each get FINAL.
C22_Witness ==
    /\ lastop.op = "destroy"
    /\ ~alive
    /\ Len(upcalls) = 3
    /\ {upcalls[k].clo : k \in 1..3} \cap KeyClosures # {}
    /\ {upcalls[k].clo : k \in 1..3} \cap UserClosures = UserClosures
    /\ \A k \in 1..3 : upcalls[k].kind = "FINAL" /\ upcalls[k].refs = 0

(* --------------------------------- C23 -------------------------------- *)
\* C23 as stated: whenever ccn_get has worked on a handle of its own that
\* borrowed the caller's key table, whichever way it returned, the one key
\* table the destroy of that handle freed is the handle's own: the caller's
\* table and its keys are never freed.
C23_NestedDestroySparesParentKeys ==
    \A k \in 1..Len(io.gets) :
        io.gets[k].nested => io.gets[k].freed = <<"nested">>

\* What does hold: the handle's own table is put back and freed when the
\* handle connected (content, no content, or an Interest that could not be
\* expressed); when it did not connect, ccn_get returns -1 and the table
\* freed is the caller's.
C23_RestoredOnceConnected ==
    \A k \in 1..Len(io.gets) :
        io.gets[k].nested =>
            IF io.gets[k].connect = "ok"
            THEN io.gets[k].freed = <<"nested">>
            ELSE io.gets[k].freed = <<"orig">> /\ io.gets[k].ret = -1

\* The upcall of a ContentObject that came with its key called ccn_get, the
\* handle made for it did not connect, and the key is gone from the cache.
C23_ParentKeysFreed ==
    /\ lastop = Op("dispatch_message", DataInlineGood, 0)
    /\ Len(io.gets) = 1
    /\ io.gets[1].nested /\ io.gets[1].freed = <<"orig">>
    /\ keys = {}

\* The three other ways back from a ccn_get called in an upcall: with the
\* content, without it, and without an Interest expressed.
C23_Returns ==
    /\ Len(io.gets) = 1 /\ io.gets[1].nested /\ io.gets[1].connect = "ok"
    /\ \/ io.gets[1].ret = 0 /\ io.gets[1].content
       \/ io.gets[1].ret = -1 /\ io.gets[1].templ = "none" /\ Len(io.polls) = 1
       \/ io.gets[1].ret = -1 /\ io.gets[1].templ = "bad" /\ io.polls = <<>>

(* --------------------------------- C24 -------------------------------- *)
\* ccn_locate_key finds the key of every ContentObject whose publisher
\* digest is in the cache, and the key it gives is the one of that digest.
CachedKeysFound ==
    \A co \in Contents :
        co.pub \in keys =>
            /\ ccn_locate_key(Handle, co).ret = 0
            /\ ccn_locate_key(Handle, co).pubkey = co.pub

\* C24: a ContentObject with an inline Key of digest D, once it has come in
\* for an Interest, leaves D in the key cache; a digest in the cache stays
\* there until ccn_destroy, and ccn_locate_key answers 0 with the key of D
\* for every ContentObject whose publisher digest is D.
C24_InlineKeyStaysCached ==
    [][lastop'.op # "destroy" =>
        /\ ( /\ lastop'.op = "dispatch_message"
             /\ lastop'.arg.mt = "content" /\ lastop'.arg.loc = "KEY"
             /\ Candidates(lastop'.arg) # {} ) => lastop'.arg.kdig \in keys'
        /\ keys \subseteq keys'
        /\ CachedKeysFound']_vars

(* --------------------------------- C25 -------------------------------- *)
\* C25: ccn_connect on a handle that has a socket returns -1 with h->err
\* EINVAL, touches neither the socket nor the descriptor table, and leaves
\* the output and input buffers, the interest registry, the filter registry,
\* the key cache and the closures as they were.
C25_ConnectTwiceIsEinval ==
    [][(lastop'.op = "connect" /\ sock # -1) =>
        /\ lastop'.ret = -1
        /\ err' = EINVAL
        /\ sock' = sock
        /\ io' = NoIO
        /\ outbuf' = outbuf /\ inbuf' = inbuf /\ decoder' = decoder
        /\ interests_by_prefix' = interests_by_prefix
        /\ interests' = interests
        /\ interest_filters' = interest_filters
        /\ keys' = keys
        /\ refcount' = refcount
        /\ upcalls' = <<>> /\ sent' = <<>>]_vars

\* A second ccn_connect on a connected handle that holds output not yet
\* written, an Interest and a filter.
C25_Witness ==
    /\ lastop = Op("connect", <<>>, -1)
    /\ err = EINVAL
    /\ sock = 3
    /\ outbuf # <<>>
    /\ \E id \in DOMAIN interests : interests[id].target = 1
    /\ DOMAIN interest_filters # {}

(* --------------------------------- C26 -------------------------------- *)
\* How many of the units of p are Interests.
InterestsIn(p) == Cardinality({k \in 1..Len(p) : p[k].mt = "interest"})

\* The upcalls of the last operation that brought an Interest.
InterestUpcalls == {k \in 1..Len(upcalls) : upcalls[k].kind = "INTEREST"}

\* The registries and the key cache are after the step what they were before.
RegistriesKept ==
    /\ interests' = interests
    /\ interests_by_prefix' = interests_by_prefix
    /\ interest_filters' = interest_filters
    /\ keys' = keys
    /\ refcount' = refcount

\* C26: a message of the peer that is no message is passed over and nothing
\* more: a read that brings no Interest makes no upcall and leaves the
\* interest registry, the filter registry and the key cache as they were,
\* and every Interest in /a that a read brings reaches the filter on /a in
\* that read, whatever came before it on the stream.
C26_MalformedIsSkipped ==
    [][(lastop'.op = "process_input" /\ lastop'.ret = 0) =>
        /\ RegistriesKept
        /\ \A k \in 1..Len(upcalls') : upcalls'[k].msg # Garbage
        /\ InterestsIn(lastop'.arg.bytes) = 0 => upcalls' = <<>>
        /\ <<"a">> \in DOMAIN interest_filters =>
              Cardinality(InterestUpcalls') = InterestsIn(lastop'.arg.bytes)]_vars

\* What does hold: the same as long as the decoder has met nothing but
\* elements; once it has met bytes that frame as no element, nothing that
\* is read is dispatched and all of it stays in the input buffer.
C26_SkippedWhileFramed ==
    [][(lastop'.op = "process_input" /\ lastop'.ret = 0) =>
        /\ RegistriesKept
        /\ \A k \in 1..Len(upcalls') : upcalls'[k].msg # Garbage
        /\ InterestsIn(lastop'.arg.bytes) = 0 => upcalls' = <<>>
        /\ (decoder'.state >= 0 /\ <<"a">> \in DOMAIN interest_filters) =>
              Cardinality(InterestUpcalls') = InterestsIn(lastop'.arg.bytes)
        /\ (decoder.state < 0 /\ inbuf # <<>>) =>
              /\ upcalls' = <<>> /\ io'.dispatched = <<>>
              /\ inbuf' = inbuf \o lastop'.arg.bytes
              /\ decoder' = decoder]_vars

\* An Interest read after an element that parses as nothing, in the same
\* read: the filter has it.
C26_AfterUnparsed ==
    /\ lastop = Op("process_input",
                   ReadData(Wire(Garbage, 2) \o << InterestMsg(<<"a">>, -1, NULL) >>), 0)
    /\ Len(io.dispatched) = 2
    /\ Len(upcalls) = 1 /\ upcalls[1].clo = "c2"
    /\ inbuf = <<>>

\* An Interest read after a closer that closes nothing: it stays in the
\* input buffer.
C26_AfterUnframed ==
    /\ lastop = Op("process_input", ReadData(<< InterestMsg(<<"a">>, -1, NULL) >>), 0)
    /\ <<"a">> \in DOMAIN interest_filters
    /\ upcalls = <<>>
    /\ inbuf = << Closing, InterestMsg(<<"a">>, -1, NULL) >>
    /\ decoder.state < 0

(* --------------------------------- C27 -------------------------------- *)
\* C27 as stated: a ccn_dispatch_message leaves the interest registry and
\* the filter registry with the buckets, the lists and the records they
\* had; a record it retires is marked (target 0, no message, no action) and
\* stays where it is.
C27_DispatchKeepsStructure ==
    [][lastop'.op = "dispatch_message" =>
        /\ interests_by_prefix' = interests_by_prefix
        /\ DOMAIN interests' = DOMAIN interests
        /\ DOMAIN interest_filters' = DOMAIN interest_filters
        /\ \A id \in DOMAIN interests :
              interests'[id].action # interests[id].action =>
                  /\ interests'[id].target = 0
                  /\ interests'[id].interest_msg = <<>>
                  /\ interests'[id].action = NULL]_vars

\* What does hold: no record and no bucket is removed, every record keeps
\* its place, retirement is a mark, and what comes new is the record of a
\* key fetch, at the head of the list of the KeyName's bucket.
C27_DispatchAddsKeyFetch ==
    [][lastop'.op = "dispatch_message" =>
        /\ DOMAIN interests \subseteq DOMAIN interests'
        /\ DOMAIN interests_by_prefix \subseteq DOMAIN interests_by_prefix'
        /\ DOMAIN interest_filters' = DOMAIN interest_filters
        /\ \A key \in DOMAIN interests_by_prefix :
              \E n \in 0..Len(interests_by_prefix'[key]) :
                  /\ \A j \in 1..n : interests_by_prefix'[key][j] \notin DOMAIN interests
                  /\ SubSeq(interests_by_prefix'[key], n + 1, Len(interests_by_prefix'[key]))
                        = interests_by_prefix[key]
        /\ \A id \in DOMAIN interests' \ DOMAIN interests :
              /\ interests'[id].action \in KeyClosures \cup {NULL}
              /\ lastop'.arg.loc = "KEYNAME"
              /\ \E k \in 1..Len(upcalls') : upcalls'[k].res = "VERIFY"
        /\ \A id \in DOMAIN interests :
              interests'[id].action # interests[id].action =>
                  /\ interests'[id].target = 0
                  /\ interests'[id].interest_msg = <<>>
                  /\ interests'[id].action = NULL]_vars

\* A dispatch that made a bucket and a record: the key fetch for /k.
C27_KeyFetchAdded ==
    /\ lastop.op = "dispatch_message"
    /\ <<"k">> \in DOMAIN interests_by_prefix
    /\ \E id \in DOMAIN interests : interests[id].action \in KeyClosures
    /\ \E k \in 1..Len(upcalls) : upcalls[k].res = "VERIFY"

(* --------------------------------- C28 -------------------------------- *)
\* The pass just taken made a timeout upcall of record id that did not
\* answer REEXPRESS.
GaveUp(id) ==
    \E k \in UpcallsFor(id)' :
        upcalls'[k].kind = "INTEREST_TIMED_OUT" /\ upcalls'[k].res # "REEXPRESS"

\* C28: after a scheduler pass that was not cut short by pending output no
\* record of the interest registry has a null action and no bucket has an
\* empty list; what the pass removes from a list leaves the others in the
\* order they had, and a record that was parked for a key not yet cached, or
\* live and not given up by its timeout upcall, is still there.
C28_SweepLeavesLiveAndParked ==
    [][(lastop'.op = "process_scheduled_operations" /\ outbuf = <<>>) =>
        /\ \A id \in DOMAIN interests' : interests'[id].action # NULL
        /\ \A key \in DOMAIN interests_by_prefix' : interests_by_prefix'[key] # <<>>
        /\ DOMAIN interests' \subseteq DOMAIN interests
        /\ \A key \in DOMAIN interests_by_prefix :
              IF \E k \in 1..Len(interests_by_prefix[key]) :
                    interests_by_prefix[key][k] \in DOMAIN interests'
              THEN /\ key \in DOMAIN interests_by_prefix'
                   /\ interests_by_prefix'[key] =
                         SelectSeq(interests_by_prefix[key],
                                   LAMBDA id : id \in DOMAIN interests')
              ELSE key \notin DOMAIN interests_by_prefix'
        /\ \A id \in DOMAIN interests :
              ( \/ interests[id].wanted_pub # NULL /\ interests[id].wanted_pub \notin keys
                \/ interests[id].target > 0 /\ ~GaveUp(id) )
              => id \in DOMAIN interests']_vars

\* A pass that swept the record of a key fetch that timed out, with its
\* bucket, and kept the record parked for that key.
C28_Witness ==
    /\ lastop.op = "process_scheduled_operations"
    /\ DOMAIN interests_by_prefix = {<<"a", "b">>}
    /\ Cardinality(DOMAIN interests) = 1
    /\ \A id \in DOMAIN interests :
          interests[id].wanted_pub # NULL /\ interests[id].target = 0
    /\ \E k \in 1..Len(upcalls) :
          upcalls[k].kind = "FINAL" /\ upcalls[k].clo \in KeyClosures

(* --------------------------------- C29 -------------------------------- *)
\* Record id waits for a key that is not in the cache.
Parked(id) ==
    /\ id \in DOMAIN interests
    /\ interests[id].wanted_pub # NULL
    /\ interests[id].wanted_pub \notin keys

\* C29: a record that is parked when a ccn_dispatch_message or a scheduler
\* pass begins comes out of it as it went in: it is still in its list, it
\* has had no upcall of any kind, and its send count and the time of its
\* last send are what they were, so it was not sent again.
C29_ParkedIsLeftAlone ==
    [][lastop'.op \in {"dispatch_message", "process_scheduled_operations"} =>
        \A id \in DOMAIN interests :
            Parked(id) =>
                /\ id \in DOMAIN interests'
                /\ interests'[id] = interests[id]
                /\ UpcallsFor(id)' = {}
                /\ \A key \in DOMAIN interests_by_prefix :
                      (\E k \in 1..Len(interests_by_prefix[key]) :
                          interests_by_prefix[key][k] = id)
                      => /\ key \in DOMAIN interests_by_prefix'
                         /\ \E k \in 1..Len(interests_by_prefix'[key]) :
                               interests_by_prefix'[key][k] = id]_vars

\* A record still parked after a pass taken a whole lifetime after its last
\* send, in which the key fetch made for it timed out and was swept.
C29_Witness ==
    /\ lastop.op = "process_scheduled_operations"
    /\ outbuf = <<>> /\ sent = <<>>
    /\ now.tv_sec = T0 + MaxElapsed
    /\ \E id \in DOMAIN interests :
          /\ Parked(id)
          /\ interests[id].lasttime.tv_sec = T0
          /\ interests[id].action = "c1"
    /\ \E k \in 1..Len(upcalls) :
          upcalls[k].kind = "INTEREST_TIMED_OUT" /\ upcalls[k].clo \in KeyClosures

(* --------------------------------- C30 -------------------------------- *)
\* Record id is sent for the first time by the next pass: its first
\* ccn_put did not succeed.
FirstCall(id) == interests[id].lasttime.tv_sec = 0 /\ interests[id].target > 0

\* C30: a record whose INTEREST_TIMED_OUT upcall answers anything but
\* REEXPRESS is gone from the registry when that scheduler pass ends (its
\* target zeroed, its action released, its message freed and the record
\* swept, all in the pass); its closure gets FINAL, after the timeout
\* upcall, exactly when no record or filter holds it any more; and it is
\* not sent again: the pass hands to ccn_put one Interest for each REEXPRESS
\* answer, each first send and each record whose key has come, and no other.
C30_GivenUpIsSweptInPass ==
    [][lastop'.op = "process_scheduled_operations" =>
        /\ \A id \in DOMAIN interests :
              GaveUp(id) =>
                  /\ id \notin DOMAIN interests'
                  /\ \A key \in DOMAIN interests_by_prefix' :
                        \A k \in 1..Len(interests_by_prefix'[key]) :
                            interests_by_prefix'[key][k] # id
                  /\ Cardinality(UpcallsFor(id)') = 1
                  /\ \A c \in Closures :
                        c = interests[id].action =>
                            /\ refcount'[c] = RefsNow(c)'
                            /\ Cardinality(Finals(c)') = IF RefsNow(c)' = 0 THEN 1 ELSE 0
                            /\ \A f \in Finals(c)', k \in UpcallsFor(id)' : k < f
        /\ outbuf = <<>> =>
              Len(sent') =
                  Cardinality({k \in 1..Len(upcalls') : upcalls'[k].res = "REEXPRESS"})
                  + Cardinality({id \in DOMAIN interests : FirstCall(id)})
                  + Cardinality({id \in DOMAIN interests :
                                    /\ interests[id].wanted_pub # NULL
                                    /\ interests[id].wanted_pub \in keys})]_vars

\* A pass in which two records of one closure timed out: one answered OK
\* and is gone, the other answered REEXPRESS, was sent again and holds the
\* closure, which got no FINAL.
C30_Witness ==
    /\ lastop.op = "process_scheduled_operations"
    /\ Len(upcalls) = 2
    /\ \A k \in 1..2 : upcalls[k].kind = "INTEREST_TIMED_OUT" /\ upcalls[k].clo = "c1"
    /\ {upcalls[1].res, upcalls[2].res} = {"OK", "REEXPRESS"}
    /\ Cardinality(DOMAIN interests) = 1
    /\ \A id \in DOMAIN interests : interests[id].lasttime = now
    /\ Len(sent) = 1
    /\ refcount["c1"] = 1

(* ------------------------------- C31 ---------------------------------- *)
\* Microseconds from the last send of record id to the clock reading t, as
\* the ageing counts them: none when the reading is before the send, and none
\* when a lifetime or more has passed (the record then times out and is sent
\* anew or given up).
ClampedSince(id, t) ==
    LET ds == t.tv_sec - interests[id].lasttime.tv_sec
        du == t.tv_usec - interests[id].lasttime.tv_usec
    IN  IF ds > CCN_INTEREST_LIFETIME_MICROSEC \div MICROSEC_PER_SEC THEN 0
        ELSE IF ds * MICROSEC_PER_SEC + du < 0 THEN 0
        ELSE IF ds * MICROSEC_PER_SEC + du >= CCN_INTEREST_LIFETIME_MICROSEC THEN 0
        ELSE ds * MICROSEC_PER_SEC + du

\* The records the pass just taken has aged.
AgedNow == {io'.aged[k].id : k \in 1..Len(io'.aged)}

\* C31: the value ccn_process_scheduled_operations returns is strictly
\* positive and at most five lifetimes; a pass that is not cut short ages the
\* records that are wanted, and when it aged any the value is the least, over
\* them, of the lifetime minus the clamped time since their last send, and
\* five lifetimes when it aged none.
C31_RefreshIsTimeToNextDeadline ==
    [][lastop'.op = "process_scheduled_operations" =>
        /\ lastop'.ret > 0
        /\ lastop'.ret <= 5 * CCN_INTEREST_LIFETIME_MICROSEC
        /\ lastop'.ret = refresh_us'
        /\ outbuf = <<>> =>
              AgedNow = {id \in DOMAIN interests :
                            interests[id].target # 0 /\ interests[id].wanted_pub = NULL}
        /\ AgedNow \subseteq DOMAIN interests
        /\ \A id \in AgedNow :
              lastop'.ret <= CCN_INTEREST_LIFETIME_MICROSEC - ClampedSince(id, now')
        /\ IF AgedNow = {} THEN lastop'.ret = 5 * CCN_INTEREST_LIFETIME_MICROSEC
           ELSE \E id \in AgedNow :
                   lastop'.ret = CCN_INTEREST_LIFETIME_MICROSEC - ClampedSince(id, now')]_vars

\* A pass one microsecond short of a lifetime after the only send: the record
\* is aged, is not yet due, and the pass returns 1.
C31_Witness ==
    /\ lastop.op = "process_scheduled_operations"
    /\ lastop.ret = 1
    /\ upcalls = <<>>
    /\ Len(io.aged) = 1
    /\ io.aged[1].delta = CCN_INTEREST_LIFETIME_MICROSEC - 1

(* ------------------------------- C32 ---------------------------------- *)
\* The delta the pass just taken computed for record id (one per record).
DeltaOf(id) == {io'.aged[k].delta : k \in {j \in 1..Len(io'.aged) : io'.aged[j].id = id}}

\* Whole seconds from the last send of record id to the reading of this pass.
SecondsSince(id) == now'.tv_sec - interests[id].lasttime.tv_sec

\* The pass just taken treated record id as timed out: it made its timeout
\* upcall, or the record had never been sent and was sent without one.
AgedOut(id) ==
    \/ \E k \in UpcallsFor(id)' : upcalls'[k].kind = "INTEREST_TIMED_OUT"
    \/ interests[id].lasttime.tv_sec = 0

\* C32 as stated: a record whose last send is 30 s or more before the reading
\* is aged as timed out, and no delta is more than 30 s of microseconds.
C32_DeltaWithinThirtySeconds ==
    [][lastop'.op = "process_scheduled_operations" =>
        \A id \in AgedNow :
            /\ SecondsSince(id) >= HEAL_SEC => AgedOut(id)
            /\ \A d \in DeltaOf(id) : d >= 0 /\ d <= HEAL_SEC * MICROSEC_PER_SEC]_vars

\* C32: a record whose lasttime.tv_sec is more than 30 s behind the reading
\* is healed (its delta is 30 s of microseconds exactly), a record whose last
\* send is 30 s or more before the reading is aged as timed out, and no delta
\* reaches 31 s of microseconds, so none overflows the int.
C32_DeltaBelowThirtyOneSeconds ==
    [][lastop'.op = "process_scheduled_operations" =>
        \A id \in AgedNow :
            /\ SecondsSince(id) >= HEAL_SEC => AgedOut(id)
            /\ SecondsSince(id) > HEAL_SEC =>
                  DeltaOf(id) = {HEAL_SEC * MICROSEC_PER_SEC}
            /\ \A d \in DeltaOf(id) :
                  d >= 0 /\ d < (HEAL_SEC + 1) * MICROSEC_PER_SEC]_vars

\* A pass MaxLate seconds after the first send: the record, sent before, is
\* healed, its delta is 30 s, and it gets its timeout upcall.
C32_Witness ==
    /\ lastop.op = "process_scheduled_operations"
    /\ now.tv_sec = T0 + MaxLate
    /\ \E k \in 1..Len(io.aged) :
          /\ io.aged[k].delta = HEAL_SEC * MICROSEC_PER_SEC
          /\ \E u \in UpcallsFor(io.aged[k].id) : upcalls[u].kind = "INTEREST_TIMED_OUT"

(* ------------------------------- C33 ---------------------------------- *)
\* C33: h->running is never negative; the dispatcher and the scheduler pass
\* each count themselves in once and out once, so every upcall they make
\* runs with the counter at 1 (seen by the ccn_run calls the upcalls make),
\* and the counter is 0 whenever neither is on the stack: between the
\* library calls, between the iterations of ccn_run and when ccn_run returns.
C33_RunningIsBalanced ==
    /\ running = 0
    /\ \A k \in 1..Len(io.reruns) : io.reruns[k].running = 1

\* ccn_run returns after an iteration in which the scheduler pass made a
\* timeout upcall and the FINAL upcall of the record it gave up, and both
\* called ccn_run while the pass was on the stack.
C33_Witness ==
    /\ lastop.op = "run" /\ lastop.arg.cb = "run"
    /\ ~run.active
    /\ Len(io.reruns) = 2
    /\ Len(upcalls) = 2
    /\ upcalls[1].kind = "INTEREST_TIMED_OUT"
    /\ upcalls[2].kind = "FINAL"
    /\ running = 0

(* ------------------------------- C34 ---------------------------------- *)
\* C34: a ccn_express_interest that fails, on a name that does not decode or
\* a template that does not parse, returns a negative value, leaves every
\* record and every per-prefix list as it was (a bucket it made is empty),
\* hands nothing to ccn_put, writes nothing, makes no upcall and leaves every
\* reference count as it was.
C34_FailedExpressAddsNothing ==
    [][(lastop'.op = "express_interest" /\ lastop'.ret # 0) =>
        /\ lastop'.ret < 0
        /\ interests' = interests
        /\ \A key \in DOMAIN interests_by_prefix' :
              interests_by_prefix'[key] =
                  IF key \in DOMAIN interests_by_prefix
                  THEN interests_by_prefix[key] ELSE <<>>
        /\ sent' = <<>>
        /\ io'.written = <<>>
        /\ outbuf' = outbuf
        /\ upcalls' = <<>>
        /\ refcount' = refcount]_vars

\* An express with a template that does not parse has just failed on a
\* connected handle whose filter holds c1 and whose list under /a/b holds a
\* record of c2: EINVAL is noted and nothing else has moved.
C34_Witness ==
    /\ lastop.op = "express_interest"
    /\ lastop.ret = -1
    /\ err = EINVAL
    /\ sock # -1
    /\ refcount["c1"] = 1 /\ refcount["c2"] = 1
    /\ \E id \in DOMAIN interests : interests[id].action = "c2"
    /\ sent = <<>>
    /\ upcalls = <<>>

(* ------------------------------- C35 ---------------------------------- *)
\* The errno a failed step of ccn_connect leaves in h->err: EMFILE from
\* socket(2), ECONNREFUSED from connect(2), EBADF from fcntl(2).
ConnectStepErrors == {24, 111, 9}

\* C35 as stated: a ccn_connect that fails at one of its steps returns -1 and
\* leaves h->sock at -1; the ccn_connect that follows it is not rejected with
\* EINVAL; and ccn_run, called next, stops at once with -1.
C35_FailedConnectLeavesUnconnected ==
    /\ [][(lastop'.op = "connect" /\ sock = -1 /\ lastop'.ret < 0) =>
            lastop'.ret = -1 /\ sock' = -1]_vars
    /\ [][(lastop.op = "connect" /\ lastop.ret = -1 /\ err \in ConnectStepErrors
           /\ lastop'.op = "connect") => err' # EINVAL]_vars
    /\ [][(lastop.op = "run_call" /\ err \in ConnectStepErrors /\ lastop'.op = "run") =>
            ~run'.active /\ lastop'.ret = -1]_vars

\* What the code does: a failure of socket(2) leaves h->sock at -1, a
\* failure of connect(2) or fcntl(2) leaves the descriptor in h->sock, and
\* the ccn_connect that follows is then rejected with EINVAL.
C35_FailedConnectKeepsDescriptor ==
    /\ [][(lastop'.op = "connect" /\ sock = -1 /\ lastop'.ret < 0) =>
            /\ lastop'.ret = -1
            /\ err' \in ConnectStepErrors
            /\ sock' = IF err' = 24 THEN -1 ELSE 3]_vars
    /\ [][(lastop.op = "connect" /\ lastop.ret = -1 /\ err \in {111, 9}
           /\ lastop'.op = "connect") =>
            lastop'.ret = -1 /\ err' = EINVAL /\ sock' = sock]_vars

\* ccn_connect has failed at connect(2), the handle holds the descriptor, and
\* ccn_run with a zero timeout has gone once round its loop and returned 0.
C35_RunOnFailedConnect ==
    /\ lastop.op = "run" /\ ~run.active
    /\ lastop.ret = 0
    /\ sock = 3
    /\ err = 111

(* ------------------------------- C36 ---------------------------------- *)
\* The records the step just taken has made.
NewRecords == DOMAIN interests' \ DOMAIN interests

\* C36: a dispatch never delivers the ContentObject to a key-fetch record it
\* has itself just made for it; that record is left wanted, holding its
\* handle_key closure, for a later message or its timeout.
C36_KeyFetchNotFedItsTrigger ==
    [][(lastop'.op = "dispatch_message" /\ lastop'.arg.mt = "content") =>
        /\ \A k \in ContentEvents' : upcalls'[k].id \notin NewRecords
        /\ \A id \in NewRecords :
              /\ interests'[id].target = 1
              /\ interests'[id].action = KeyClosure(id)]_vars

\* What the code does: the key-fetch record is made with the handle_key
\* closure; it gets the very ContentObject that made it, in the same dispatch,
\* exactly when its Interest was accepted by ccn_put and the KeyName is a
\* prefix of the content's name shorter than the prefix the answered record
\* is registered under, and it is then retired; in every other case it is
\* left wanted.
C36_KeyFetchFedWhenKeyNameIsPrefix ==
    [][(lastop'.op = "dispatch_message" /\ lastop'.arg.mt = "content") =>
        \A id \in NewRecords :
            IF /\ IsPrefix(lastop'.arg.kname, lastop'.arg.name)
               /\ \E k \in VerifyEvents' : upcalls'[k].matched > Len(lastop'.arg.kname)
               /\ \E s \in 1..Len(sent') :
                     sent'[s].p = KeyFetchMsg(lastop'.arg) /\ sent'[s].ret >= 0
            THEN /\ \E k \in ContentEvents' :
                       upcalls'[k].id = id /\ upcalls'[k].clo = KeyClosure(id)
                 /\ interests'[id].target = 0
                 /\ interests'[id].action = NULL
            ELSE /\ \A k \in ContentEvents' : upcalls'[k].id # id
                 /\ interests'[id].target = 1
                 /\ interests'[id].action = KeyClosure(id)]_vars

\* The ContentObject /a/b whose KeyName is /a has been answered VERIFY and,
\* in the same dispatch, delivered to the key-fetch record made for it.
C36_TriggerFedToKeyFetch ==
    /\ lastop.op = "dispatch_message"
    /\ lastop.arg = DataKeyNameNear
    /\ \E k \in VerifyEvents :
          \E j \in ContentEvents :
              /\ j > k
              /\ upcalls[j].clo = KeyClosure(upcalls[j].id)
              /\ upcalls[j].msg = lastop.arg

(* ------------------------------- C37 ---------------------------------- *)
\* Record id has been retired: it wants nothing, waits for no key, and its
\* action has been released.
Retired(id) ==
    /\ id \in DOMAIN interests
    /\ interests[id].target = 0
    /\ interests[id].wanted_pub = NULL
    /\ interests[id].action = NULL

\* C37: whatever is done next, a retired record is left exactly as it is or
\* is freed; no content upcall and no timeout upcall is made for it; no
\* message of a record without a message is handed to ccn_put, and nothing at
\* all is when every record is retired.
C37_RetiredStaysSilent ==
    [][\A id \in 1..MaxInterests :
          Retired(id) =>
              /\ id \in DOMAIN interests' => interests'[id] = interests[id]
              /\ lastop'.op \in {"dispatch_message", "process_scheduled_operations"} =>
                    /\ \A k \in UpcallsFor(id)' :
                          upcalls'[k].kind \notin
                              ContentKinds \cup {"INTEREST_TIMED_OUT"}
                    /\ \A s \in 1..Len(sent') : sent'[s].p # <<>>
                    /\ (\A j \in DOMAIN interests : Retired(j)) => sent' = <<>>]_vars

\* A record retired by the dispatch before has just been passed over by the
\* dispatch of a ContentObject its Interest matched: no upcall, nothing sent.
C37_Witness ==
    /\ lastop.op = "dispatch_message"
    /\ lastop.arg = DataInlineGood
    /\ upcalls = <<>>
    /\ sent = <<>>
    /\ \E id \in DOMAIN interests : Retired(id) /\ interests[id].lasttime.tv_sec # 0

(* ------------------------------- C38 ---------------------------------- *)
\* The content upcalls the step just taken made for record id.
ContentUpcallsFor(id) == {k \in ContentEvents' : upcalls'[k].id = id}

\* C38: for each record, at most one content upcall is made between two
\* accepted transmissions of its Interest: a record that has had one since
\* its Interest was last accepted gets none from the ContentObjects that
\* follow, a dispatch makes at most one for a record, and the count since the
\* last accepted transmission is never more than one.
C38_OneUpcallPerTransmission ==
    /\ [](\A id \in DOMAIN interests : interests[id].delivered <= 1)
    /\ [][\A id \in DOMAIN interests :
             /\ Cardinality(ContentUpcallsFor(id)) <= 1
             /\ interests[id].delivered >= 1 => ContentUpcallsFor(id) = {}]_vars

\* A ContentObject matching the Interest of a record that is still wanted has
\* just been dispatched without any upcall: the record had its content upcall
\* before, answered REEXPRESS, and its Interest has not been accepted since.
C38_Witness ==
    /\ lastop.op = "dispatch_message"
    /\ lastop.arg \in {DataInlineGood, DataNoLocator}
    /\ upcalls = <<>>
    /\ \E id \in DOMAIN interests :
          /\ interests[id].delivered = 1
          /\ interests[id].target = 1
          /\ interests[id].action = "c1"
          /\ ccn_content_matches_interest(lastop.arg, interests[id].interest_msg[1])

====
